---- MODULE Spec2Model ----
(***************************************************************************)
(* A model of the PFAPI numeric pipeline (valenciaga1231/PFAPI):           *)
(*   Network.read_busbars            -> the bus index                      *)
(*   Elements.* / Converter.*        -> per-element admittances            *)
(*   build_admittance_matrix         -> the Y-bus                          *)
(*   reduce_matrix / KronReduction   -> the generator-only equivalent      *)
(*   calculate_power_distribution_ratios -> the redistribution ratios      *)
(*                                                                         *)
(* Numbers are exact: a real is a fraction <<n, d>> with d > 0 in lowest   *)
(* terms, or a special with d = 0 (+inf, -inf, NaN, or "raised").  A       *)
(* complex number is a record [re, im] of two such reals.                  *)
(***************************************************************************)
EXTENDS Integers, Sequences, FiniteSets, TLC

VARIABLES
    \* ---- Network (core/Network.py) : the bus index ----
    busbar_name_to_index,   \* dict, as the sequence of its items in insertion order
    PF_busbars,             \* the filtered PowerFactory bus objects
    busbars,                \* the converted Busbar objects
    classified_elements,    \* dict: PowerFactory class name -> PowerFactory objects
    log,                    \* the warnings of the last call, oldest first
    err,                    \* the exception the last call ended with, or "none"
    call,                   \* the last call: its name and its argument
    \* ---- Network : the converted elements, one list per class ----
    lines, synchronous_machines, switchs, two_winding_transformers,
    three_winding_transformers, loads, common_impedances, external_grids,
    voltage_sources, shunts,
    network_base_mva,       \* Network.base_mva
    \* ---- results ----
    Y_bus,                  \* what build_admittance_matrix returned, or NoMatrix
    load_flow_results,      \* Network.load_flow_results: bus name -> voltage, angle
    Y_reduced,              \* the matrix reduce_matrix returned, or NoMatrix
    generator_bus_names_order,  \* the name list reduce_matrix returned
    ratios,                 \* what calculate_power_distribution_ratios returned
    steps,                  \* the helper functions its last call went through
    \* ---- the PowerFactory side ----
    PowerFactoryApp_instance,   \* PowerFactoryApp._instance, with its attributes
    pf_calls,               \* the calls made so far and how each ended, oldest first
    simulation_events,      \* the contents of the study case's event folder
    rms,                    \* obtain_rms_results: its local variables and position
    busbars_before          \* the bus names indexed when the last read_busbars began

topoVars == <<busbar_name_to_index, PF_busbars, busbars, classified_elements>>
elemVars == <<lines, synchronous_machines, switchs, two_winding_transformers,
              three_winding_transformers, loads, common_impedances, external_grids,
              voltage_sources, shunts, network_base_mva>>
reduceVars == <<load_flow_results, Y_reduced, generator_bus_names_order, ratios, steps>>
appVars == <<PowerFactoryApp_instance, pf_calls, simulation_events, rms>>
pfVars == <<PowerFactoryApp_instance, pf_calls, simulation_events, rms, busbars_before>>
vars == <<busbar_name_to_index, PF_busbars, busbars, classified_elements, log, err, call,
          lines, synchronous_machines, switchs, two_winding_transformers,
          three_winding_transformers, loads, common_impedances, external_grids,
          voltage_sources, shunts, network_base_mva, Y_bus,
          load_flow_results, Y_reduced, generator_bus_names_order, ratios, steps,
          PowerFactoryApp_instance, pf_calls, simulation_events, rms, busbars_before>>

(***************************************************************************)
(* Sequences and dicts                                                     *)
(***************************************************************************)
Range(s) == {s[i] : i \in 1..Len(s)}

\* All sequences over S of length at most n.
SeqUpTo(S, n) == UNION {[1..k -> S] : k \in 0..n}

\* A Python dict is the sequence of its items <<key, value>> in insertion order.
DictKeys(d) == [i \in 1..Len(d) |-> d[i][1]]
DictHas(d, k) == \E i \in 1..Len(d) : d[i][1] = k
DictGet(d, k) == d[CHOOSE i \in 1..Len(d) : d[i][1] = k][2]
\* d[k] = v : an existing key keeps its place and takes the new value.
DictSet(d, k, v) ==
    IF DictHas(d, k)
    THEN [i \in 1..Len(d) |-> IF d[i][1] = k THEN <<k, v>> ELSE d[i]]
    ELSE Append(d, <<k, v>>)

(***************************************************************************)
(* Numbers.  A real (Python float / numpy float64, computed exactly) is    *)
(*   <<n, d>>, d > 0, gcd(n, d) = 1 : the fraction n/d                     *)
(*   <<1, 0>> = +inf   <<-1, 0>> = -inf   <<0, 0>> = NaN                   *)
(*   <<0, -1>> : no value, the computation has raised ZeroDivisionError    *)
(*   <<0, -2>> : no value, the computation has raised ValueError           *)
(* and a complex (Python complex / numpy complex128) is [re, im].          *)
(* The arithmetic is one recursive operator, Num(op, x, y); the operators  *)
(* after it name its cases.                                                *)
(***************************************************************************)
Abs(n) == IF n < 0 THEN -n ELSE n
Sign(n) == IF n > 0 THEN 1 ELSE IF n < 0 THEN -1 ELSE 0

QInt(n) == <<n, 1>>
QZero == <<0, 1>>
QOne == <<1, 1>>
QInf == <<1, 0>>
QNegInf == <<-1, 0>>
QNaN == <<0, 0>>
QRaised == <<0, -1>>
QInvalid == <<0, -2>>

QIsFinite(a) == a[2] > 0
QIsRaised(a) == a[2] < 0
QIsNaN(a) == a = QNaN
QIsInf(a) == a = QInf \/ a = QNegInf
QSign(a) == Sign(a[1])
QNeg(a) == <<-a[1], a[2]>>
\* 1 / a: 1/0 is +inf here, the callers decide whether a zero divisor raises.
QRecip(a) == IF a[1] < 0 THEN <<-a[2], -a[1]>> ELSE <<a[2], a[1]>>

C(re, im) == [re |-> re, im |-> im]
CReal(a) == C(a, QZero)
CZero == C(QZero, QZero)
CJ == C(QZero, QOne)
CRaised == C(QRaised, QRaised)
CInvalid == C(QInvalid, QInvalid)

CIsRaised(z) == QIsRaised(z.re) \/ QIsRaised(z.im)
CIsFinite(z) == QIsFinite(z.re) /\ QIsFinite(z.im)
CIsNaN(z) == ~CIsRaised(z) /\ (QIsNaN(z.re) \/ QIsNaN(z.im))
\* A complex one part of which has no value has no value.
CNorm(z) ==
    IF QIsRaised(z.re) THEN C(z.re, z.re) ELSE IF QIsRaised(z.im) THEN C(z.im, z.im) ELSE z
CConj(z) == C(z.re, QNeg(z.im))
CNeg(z) == C(QNeg(z.re), QNeg(z.im))

RECURSIVE Num(_, _, _)
Num(op, x, y) ==
    CASE op = "gcd" -> IF y = 0 THEN x ELSE Num("gcd", y, x % y)
      \* x/y in lowest terms, y >= 0
      [] op = "frac" -> IF y = 0 THEN <<Sign(x), 0>>
                        ELSE Num("over", <<x, y>>, Num("gcd", Abs(x), y))
      [] op = "over" -> <<x[1] \div y, x[2] \div y>>
      [] op = "+" -> IF QIsRaised(x) THEN x ELSE IF QIsRaised(y) THEN y
                     ELSE IF x[2] = 0 /\ y[2] = 0 THEN (IF x = y THEN x ELSE QNaN)
                     ELSE Num("sum", <<x, y>>, Num("gcd", x[2], y[2]))
      \* x[1] + x[2] over the common denominator of which y is the gcd
      [] op = "sum" -> Num("frac", x[1][1] * (x[2][2] \div y) + x[2][1] * (x[1][2] \div y),
                                   (x[1][2] \div y) * x[2][2])
      [] op = "*" -> IF QIsRaised(x) THEN x ELSE IF QIsRaised(y) THEN y
                     ELSE Num("times", Num("frac", x[1], y[2]), Num("frac", y[1], x[2]))
      [] op = "times" -> <<x[1] * y[1], x[2] * y[2]>>
      \* numpy float division: a zero divisor gives +-inf, or NaN for 0/0
      [] op = "np/" -> IF QIsRaised(x) THEN x ELSE IF QIsRaised(y) THEN y
                       ELSE Num("*", x, QRecip(y))
      \* Python float division: a zero divisor raises ZeroDivisionError
      [] op = "py/" -> IF y = QZero THEN QRaised ELSE Num("np/", x, y)
      [] op = "c+" -> CNorm(C(Num("+", x.re, y.re), Num("+", x.im, y.im)))
      [] op = "c*" -> CNorm(C(Num("+", Num("*", x.re, y.re), QNeg(Num("*", x.im, y.im))),
                              Num("+", Num("*", x.re, y.im), Num("*", x.im, y.re))))
      \* |x|^2
      [] op = "abs2" -> Num("+", Num("*", x.re, x.re), Num("*", x.im, x.im))
      \* a complex x over a real y
      [] op = "c/r" -> CNorm(C(Num("np/", x.re, y), Num("np/", x.im, y)))
      \* numpy complex division: x * conj(y) / |y|^2; a zero divisor gives
      \* inf/NaN parts, never raises
      [] op = "cnp/" -> IF CIsRaised(x) THEN CNorm(x) ELSE IF CIsRaised(y) THEN CNorm(y)
                        ELSE IF y = CZero THEN Num("c/r", x, QZero)
                        ELSE IF ~CIsFinite(y)
                             THEN (IF CIsFinite(x) /\ ~CIsNaN(y) THEN CZero ELSE C(QNaN, QNaN))
                        ELSE Num("c/r", Num("c*", x, CConj(y)), Num("abs2", y, y))
      \* Python complex division: a zero divisor raises ZeroDivisionError
      [] op = "cpy/" -> IF y = CZero THEN CRaised ELSE Num("cnp/", x, y)

Gcd(a, b) == Num("gcd", a, b)
Q(n, d) == IF d < 0 THEN Num("frac", -n, -d) ELSE Num("frac", n, d)
QAdd(a, b) == Num("+", a, b)
QSub(a, b) == Num("+", a, QNeg(b))
QMul(a, b) == Num("*", a, b)
PyDiv(a, b) == Num("py/", a, b)
NpDiv(a, b) == Num("np/", a, b)
CAdd(z, w) == Num("c+", z, w)
CSub(z, w) == Num("c+", z, CNeg(w))
CMul(z, w) == Num("c*", z, w)
CScale(a, z) == Num("c*", CReal(a), z)
CAbs2(z) == Num("abs2", z, z)
CPyDiv(z, w) == Num("cpy/", z, w)
CNpDiv(z, w) == Num("cnp/", z, w)
\* A complex divided by a real, z / a, in Python.
CPyDivReal(z, a) == Num("cpy/", z, CReal(a))

QLess(a, b) == a[1] * b[2] < b[1] * a[2]      \* finite a, b

\* The square root, defined where it is a fraction again (the model's inputs
\* are chosen so); NaN below zero as for numpy, specials pass through.
ISqrt(n) == CHOOSE r \in 0..n : r * r = n
IsSquare(n) == \E r \in 0..n : r * r = n
QSqrt(a) ==
    IF ~QIsFinite(a) THEN (IF a = QNegInf THEN QNaN ELSE a)
    ELSE IF a[1] < 0 THEN QNaN
    ELSE <<ISqrt(a[1]), ISqrt(a[2])>>

QAbs(a) == IF QIsRaised(a) THEN a ELSE <<Abs(a[1]), a[2]>>

(***************************************************************************)
(* Elements.py : one constructor per element class.  A constructor gives   *)
(* the object's attributes and `raised`, the exception that ended          *)
(* __init__ ("none" when the object exists).  A value computed once and    *)
(* read several times in the source is the parameter of an operator here.  *)
(***************************************************************************)
\* The impedance floor.  The source writes 1e-12; its reciprocal is beyond exact
\* 32-bit arithmetic, so a floor of 10 ** -3 stands for it: what matters is that
\* it is a small positive real.
ZFloor == <<1, 1000>>
Micro == <<1, 1000000>>                 \* 10 ** -6
Hundred == QInt(100)
Sq(a) == QMul(a, a)

RaisedOf(z) ==
    IF ~CIsRaised(z) THEN "none"
    ELSE IF CNorm(z).re = QRaised THEN "ZeroDivisionError" ELSE "ValueError"

\* self.Y = <the admittance>, the last statement of most constructors.
WithY(self, Y) == [Y |-> Y, raised |-> RaisedOf(Y)] @@ self

\* if Z == 0: Z = 1e-12
ZeroFloored(Z) == IF Z = CZero THEN CReal(ZFloor) ELSE Z

\* x if x != 0 else 1e-12
Clamp(x) == IF x # QZero THEN x ELSE ZFloor

\* ---- SynchronousGenerator ----
SynchronousGenerator_calculate_impedance(g) ==
    CScale(PyDiv(Sq(g.U_rat), g.S_rat), C(g.r_a, QAdd(g.x_as, g.x_d1)))

SynchronousGenerator_calculate_admittance(g) ==
    CPyDiv(CReal(QOne), SynchronousGenerator_calculate_impedance(g))

\* Z_base = U_rat ** 2 / base_mva; Y_base = 1 / Z_base; Y = Y_units / Y_base
SynchronousGenerator(p) ==
    WithY([cls |-> "SynchronousGenerator", data_object |-> p.data_object,
           name |-> p.name, busbar_to |-> p.connected_busbar,
           S_rat |-> p.S_rat, U_rat |-> p.U_rat, r_a |-> p.r_a, x_as |-> p.x_as,
           x_d1 |-> p.x_d1, base_mva |-> p.base_mva],
          CPyDivReal(SynchronousGenerator_calculate_admittance(p),
                     PyDiv(QOne, PyDiv(Sq(p.U_rat), p.base_mva))))

\* ---- Line ----
Line_per_unit(l, Z_base) ==
    CNorm(C(PyDiv(l.resistance, Z_base), PyDiv(l.reactance, Z_base)))

Line_calculate_impedance(l, base_mva) ==
    Line_per_unit(l, PyDiv(Sq(l.rated_voltage), base_mva))

\* A line that hands out its impedance where its admittance is asked for.
Line_calculate_admittance_NotInverted(l, base_mva) ==
    ZeroFloored(Line_calculate_impedance(l, base_mva))

Line_calculate_admittance(l, base_mva) ==
    CPyDiv(CReal(QOne), ZeroFloored(Line_calculate_impedance(l, base_mva)))

Line_shunt_per_unit(l, Y_base) ==
    CNorm(C(QZero, QAdd(PyDiv(QMul(l.susceptance_effective, Micro), Y_base),
                        PyDiv(QMul(l.susceptance_ground, Micro), Y_base))))

Line_calculate_shunt_admittance(l, base_mva) ==
    Line_shunt_per_unit(l, PyDiv(base_mva, Sq(l.rated_voltage)))

Line_init(self, Y_line, Y_shunt) ==
    [Y_line |-> Y_line, Y_shunt |-> Y_shunt,
     raised |-> IF CIsRaised(Y_line) THEN RaisedOf(Y_line) ELSE RaisedOf(Y_shunt)] @@ self

Line(p) ==
    Line_init([cls |-> "Line", name |-> p.name,
               busbar_from |-> p.connected_busbar_from, busbar_to |-> p.connected_busbar_to,
               resistance |-> p.resistance, reactance |-> p.reactance,
               susceptance_effective |-> p.susceptance_effective,
               susceptance_ground |-> p.susceptance_ground,
               rated_voltage |-> p.rated_voltage, parallel |-> p.parallel,
               base_mva |-> p.base_mva],
              Line_calculate_admittance(p, p.base_mva),
              Line_calculate_shunt_admittance(p, p.base_mva))

\* ---- Switch ----
Switch_calculate_impedance(sw) == sw.on_resistance

Switch_calculate_admittance(sw) == PyDiv(QOne, Switch_calculate_impedance(sw))

\* Z_base = voltage_level ** 2 / S_base; Y_base = 1 / Z_base; Y = Y_units / Y_base
Switch(p) ==
    WithY([cls |-> "Switch", name |-> p.name,
           busbar_from |-> p.connected_busbar_from, busbar_to |-> p.connected_busbar_to,
           on_resistance |-> p.on_resistance, voltage_level |-> p.voltage_level,
           S_base |-> p.base_mva],
          CNorm(CReal(PyDiv(Switch_calculate_admittance(p),
                            PyDiv(QOne, PyDiv(Sq(p.voltage_level), p.base_mva))))))

\* ---- TwoWindingTransformer ----
\* R_pu *= scaling_factor; X_pu *= scaling_factor
TwoWindingTransformer_scaled(R_pu, X_pu, scaling_factor) ==
    CNorm(C(QMul(R_pu, scaling_factor), QMul(X_pu, scaling_factor)))

TwoWindingTransformer_on_base(t, base_mva, R_pu, X_pu) ==
    IF t.S_rat # base_mva
    THEN TwoWindingTransformer_scaled(R_pu, X_pu, PyDiv(base_mva, t.S_rat))
    ELSE C(R_pu, X_pu)

\* The ValueError of calculate_impedance, then X_pu.
TwoWindingTransformer_reactance(t, base_mva, R_pu, Z_pu_squared, R_pu_squared) ==
    IF QLess(Z_pu_squared, R_pu_squared) THEN CInvalid
    ELSE TwoWindingTransformer_on_base(t, base_mva, R_pu,
                                       QSqrt(QSub(Z_pu_squared, R_pu_squared)))

TwoWindingTransformer_squares(t, base_mva, Z_pu, R_pu) ==
    TwoWindingTransformer_reactance(t, base_mva, R_pu, Sq(Z_pu), Sq(R_pu))

TwoWindingTransformer_calculate_impedance(t, base_mva) ==
    TwoWindingTransformer_squares(t, base_mva, PyDiv(t.U_k, Hundred), PyDiv(t.U_k_r, Hundred))

TwoWindingTransformer_calculate_admittance(t, base_mva) ==
    CPyDiv(CReal(QOne), ZeroFloored(TwoWindingTransformer_calculate_impedance(t, base_mva)))

\* A ratio that takes the tap changer into account:
\* t = 1 + tap_position * voltage_per_tap / 100.0
TwoWindingTransformer_calculate_off_nominal_tap_ratio_Tapped(t) ==
    QMul(PyDiv(PyDiv(t.U_rated_HV, t.U_rated_LV), PyDiv(t.U_nominal_HV, t.U_nominal_LV)),
         QAdd(QOne, PyDiv(QMul(QInt(t.tap_position), t.voltage_per_tap), Hundred)))

TwoWindingTransformer_calculate_off_nominal_tap_ratio(t) ==
    PyDiv(PyDiv(t.U_rated_HV, t.U_rated_LV), PyDiv(t.U_nominal_HV, t.U_nominal_LV))

\* a is a float: np.conj(a) is a numpy float, the other divisors are Python's.
TwoWindingTransformer_elements(Y, a) ==
    [Y_aa |-> CPyDivReal(Y, Sq(QAbs(a))), Y_bb |-> Y,
     Y_ab |-> CNpDiv(CNeg(Y), CReal(a)), Y_ba |-> CPyDivReal(CNeg(Y), a)]

TwoWindingTransformer_get_admittance_matrix_elements(t, base_mva) ==
    TwoWindingTransformer_elements(TwoWindingTransformer_calculate_admittance(t, base_mva),
                                   TwoWindingTransformer_calculate_off_nominal_tap_ratio(t))

TwoWindingTransformer_init(self, Y, ratio) ==
    [Y |-> Y, ratio |-> ratio,
     raised |-> IF CIsRaised(Y) THEN RaisedOf(Y) ELSE RaisedOf(CReal(ratio))] @@ self

TwoWindingTransformer(p) ==
    TwoWindingTransformer_init(
        [cls |-> "TwoWindingTransformer", name |-> p.name,
         busbar_from |-> p.bus_from, busbar_to |-> p.bus_to,
         S_rat |-> p.S_rat, U_k |-> p.U_k, U_k_r |-> p.U_k_r,
         U_nominal_HV |-> p.U_nominal_HV, U_nominal_LV |-> p.U_nominal_LV,
         U_rated_HV |-> p.U_rated_HV, U_rated_LV |-> p.U_rated_LV,
         phase_shift |-> p.phase_shift, tap_position |-> p.tap_position,
         voltage_per_tap |-> p.voltage_per_tap, parallel |-> p.parallel,
         base_mva |-> p.base_mva],
        TwoWindingTransformer_calculate_admittance(p, p.base_mva),
        TwoWindingTransformer_calculate_off_nominal_tap_ratio(p))

\* ---- ThreeWindingTransformer ----
\* Z_ab, Z_bc, Z_ca
ThreeWindingTransformer_Z(u_k_percent, S_nom) ==
    QMul(PyDiv(u_k_percent, Hundred), PyDiv(QOne, S_nom))

\* 1.0 / Z if Z != 0 else np.inf
ThreeWindingTransformer_inverse(Z_pu) == IF Z_pu # QZero THEN PyDiv(QOne, Z_pu) ELSE QInf

\* Y_ab, Y_bc, Y_ca
ThreeWindingTransformer_Y(u_k_percent, S_nom) ==
    ThreeWindingTransformer_inverse(ThreeWindingTransformer_Z(u_k_percent, S_nom))

\* Rows/columns 1, 2, 3 = HV (A), MV (B), LV (C).
ThreeWindingTransformer_delta(Yab, Ybc, Yca) ==
    << << CNorm(CReal(QAdd(Yab, Yca))), CNorm(CReal(QNeg(Yab))), CNorm(CReal(QNeg(Yca))) >>,
       << CNorm(CReal(QNeg(Yab))), CNorm(CReal(QAdd(Yab, Ybc))), CNorm(CReal(QNeg(Ybc))) >>,
       << CNorm(CReal(QNeg(Yca))), CNorm(CReal(QNeg(Ybc))), CNorm(CReal(QAdd(Ybc, Yca))) >> >>

ThreeWindingTransformer_delta_admittance_matrix(t) ==
    ThreeWindingTransformer_delta(ThreeWindingTransformer_Y(t.u_k_percent_AB, t.S_nom_AB),
                                  ThreeWindingTransformer_Y(t.u_k_percent_BC, t.S_nom_BC),
                                  ThreeWindingTransformer_Y(t.u_k_percent_CA, t.S_nom_CA))

\* __init__ stores the parameters and computes nothing.
ThreeWindingTransformer(p) ==
    [cls |-> "ThreeWindingTransformer", name |-> p.name,
     u_k_percent_AB |-> p.u_k_percent_AB, u_k_percent_BC |-> p.u_k_percent_BC,
     u_k_percent_CA |-> p.u_k_percent_CA,
     S_nom_AB |-> p.S_nom_AB, S_nom_BC |-> p.S_nom_BC, S_nom_CA |-> p.S_nom_CA,
     bus_HV |-> p.bus_HV, bus_MV |-> p.bus_MV, bus_LV |-> p.bus_LV,
     base_mva |-> p.base_mva, raised |-> "none"]

\* ---- ShuntElement ----
ShuntType_R_L_C == 0
ShuntType_R_L == 1
ShuntType_C == 2
ShuntType_R_L_C_Rp == 3
ShuntType_R_L_C1_C2_Rp == 4

\* What a function that falls off its end returns.
PyNone == [none |-> TRUE]

\* 2 * np.pi for the resonant-filter branch; a fraction stands for the float.
TwoPi == <<44, 7>>

\* G = R / (R ** 2 + X ** 2)
ShuntElement_G(d) == PyDiv(d.rrea, QAdd(Sq(d.rrea), Sq(d.xrea)))

\* Y = (Y_branch + Y_p) * Y_c2 / (Y_branch + Y_p + Y_c2)
ShuntElement_filter(Y_branch_and_p, Y_c2) ==
    CPyDiv(CMul(Y_branch_and_p, Y_c2), CAdd(Y_branch_and_p, Y_c2))

\* Z_branch = R + 1j * X - 1j/B1; Y_branch = 1 / Z_branch; Y_p = 1 / R_p; Y_c2 = 1j * B2
ShuntElement_branches(d, omega) ==
    ShuntElement_filter(
        CAdd(CPyDiv(CReal(QOne),
                    CSub(C(d.rrea, d.xrea), CPyDivReal(CJ, QMul(QMul(omega, d.c1), Micro)))),
             CNorm(CReal(PyDiv(QOne, d.rpara)))),
        CNorm(C(QZero, QMul(QMul(omega, d.c2), Micro))))

\* Y in siemens, by shunt type; d holds the attributes read with GetAttribute
\* (bcap, xrea, rrea, gparac, fres, c1, c2, rpara).
ShuntElement_Y_units(shunt_type, d) ==
    IF shunt_type = ShuntType_R_L_C THEN CNorm(C(ShuntElement_G(d), QMul(d.bcap, Micro)))
    ELSE IF shunt_type = ShuntType_R_L THEN CNorm(CReal(ShuntElement_G(d)))
    ELSE IF shunt_type = ShuntType_C THEN C(QMul(d.gparac, Micro), QMul(d.bcap, Micro))
    ELSE ShuntElement_branches(d, QMul(TwoPi, d.fres))

\* calculate_admittance: the R_L_C_Rp branch is `pass`, the function returns
\* None; an unknown type raises ValueError.
ShuntElement_calculate_admittance(sh, base_mva) ==
    IF sh.shunt_type = ShuntType_R_L_C_Rp THEN PyNone
    ELSE IF sh.shunt_type \notin {ShuntType_R_L_C, ShuntType_R_L, ShuntType_C,
                                  ShuntType_R_L_C1_C2_Rp}
    THEN CInvalid
    ELSE CPyDivReal(ShuntElement_Y_units(sh.shunt_type, sh.data_object),
                    PyDiv(base_mva, Sq(sh.U_rat)))

ShuntElement_init(self, Y) ==
    [Y |-> Y, raised |-> IF Y = PyNone THEN "none" ELSE RaisedOf(Y)] @@ self

ShuntElement(p) ==
    ShuntElement_init([cls |-> "ShuntElement", name |-> p.name, U_rat |-> p.U_rat,
                       bus_to |-> p.bus_to, shunt_type |-> p.shunt_type,
                       base_mva |-> p.base_mva],
                      ShuntElement_calculate_admittance(p, p.base_mva))

\* ---- Load ----
Load_calculate_power(l, base_mva) ==
    CNorm(C(PyDiv(l.P, base_mva), QNeg(PyDiv(l.Q, base_mva))))

Load_calculate_admittance(l, base_mva) ==
    CPyDivReal(Load_calculate_power(l, base_mva), Sq(l.voltage))

Load(p) ==
    WithY([cls |-> "Load", name |-> p.name, busbar_to |-> p.connected_busbar,
           P |-> p.P, Q |-> p.Q, voltage |-> p.voltage, base_mva |-> p.base_mva],
          Load_calculate_admittance(p, p.base_mva))

\* ---- CommonImpedance ----
\* calculate_impedance assigns the clamped values to self.R, self.X.
CommonImpedance_calculate_impedance(c) ==
    CPyDivReal(CScale(c.S_rat, C(Clamp(c.R), Clamp(c.X))), Sq(c.U_nominal_HV))

CommonImpedance_calculate_admittance(c) ==
    CPyDiv(CReal(QOne), CommonImpedance_calculate_impedance(c))

\* Z_base = U_nom_HV ** 2 / base_mva; Y_base = 1 / Z_base; Y = Y_units / Y_base
CommonImpedance(p) ==
    WithY([cls |-> "CommonImpedance", name |-> p.name,
           bus_from |-> p.bus_from, bus_to |-> p.bus_to,
           R |-> Clamp(p.R), X |-> Clamp(p.X),
           U_nom_HV |-> p.U_nominal_HV, U_nom_LV |-> p.U_nominal_LV, S_rat |-> p.S_rat,
           tap_ratio |-> p.tap_ratio, phase_shift |-> p.phase_shift,
           base_mva |-> p.base_mva],
          CPyDivReal(CommonImpedance_calculate_admittance(p),
                     PyDiv(QOne, PyDiv(Sq(p.U_nominal_HV), p.base_mva))))

\* ---- ExternalGrid ----
\* R_sc = Z_sc * (R_X / (1 + R_X)) * c_factor
\* X_sc = Z_sc * (1/np.sqrt(1 + R_X**2)) * c_factor
ExternalGrid_short_circuit(e, Z_sc) ==
    CNorm(C(QMul(QMul(Z_sc, PyDiv(e.r_x_ratio, QAdd(QOne, e.r_x_ratio))), e.c_factor),
            QMul(QMul(Z_sc, NpDiv(QOne, QSqrt(QAdd(QOne, Sq(e.r_x_ratio))))), e.c_factor)))

ExternalGrid_calculate_impedance(e) ==
    ExternalGrid_short_circuit(e, PyDiv(Sq(e.U_rat), e.S_sc))

ExternalGrid_calculate_admittance(e) ==
    CPyDiv(CReal(QOne), ExternalGrid_calculate_impedance(e))

\* Z_base = U_rat ** 2 / S_base; Y_base = 1 / Z_base; Y = calculate_admittance() / Y_base
ExternalGrid(p) ==
    WithY([cls |-> "ExternalGrid", name |-> p.name, busbar_to |-> p.connected_busbar,
           U_rat |-> p.U_rat, S_sc |-> p.S_sc, c_factor |-> p.c_factor,
           R_X |-> p.r_x_ratio, S_base |-> p.base_mva],
          CPyDivReal(ExternalGrid_calculate_admittance(p),
                     PyDiv(QOne, PyDiv(Sq(p.U_rat), p.base_mva))))

\* ---- VoltageSourceAC ----
\* calculate_impedance assigns the clamped values to self.R, self.X.
VoltageSourceAC_calculate_impedance(v) == C(Clamp(v.R), Clamp(v.X))

VoltageSourceAC_calculate_admittance(v) ==
    CPyDiv(CReal(QOne), VoltageSourceAC_calculate_impedance(v))

VoltageSourceAC(p) ==
    WithY([cls |-> "VoltageSourceAC", name |-> p.name, busbar_to |-> p.connected_busbar,
           U_rat |-> p.U_rat, R |-> Clamp(p.R), X |-> Clamp(p.X), S_base |-> p.base_mva],
          CPyDivReal(VoltageSourceAC_calculate_admittance(p),
                     PyDiv(QOne, PyDiv(Sq(p.U_rat), p.base_mva))))

\* The bound on the number of PowerFactory bus objects handed to read_busbars.
MaxBusbars == 3

(***************************************************************************)
(* Network.read_busbars                                                    *)
(***************************************************************************)
BUSBAR_TYPE_BUSBAR == 0
BUSBAR_TYPE_JUNCTION_NODE == 1
ACCEPTED_BUSBAR_TYPES == {BUSBAR_TYPE_BUSBAR, BUSBAR_TYPE_JUNCTION_NODE}

\* The PowerFactory ElmTerm objects the model hands in: for each attribute the
\* filter reads, a value that passes and a value that fails.
PFBusbarSet ==
    { [loc_name |-> "a", outserv |-> 0, iUsage |-> 0, IsEnergized |-> 1],
      [loc_name |-> "b", outserv |-> 0, iUsage |-> 0, IsEnergized |-> 1],
      [loc_name |-> "b", outserv |-> 0, iUsage |-> 1, IsEnergized |-> 1],
      [loc_name |-> "a", outserv |-> 1, iUsage |-> 0, IsEnergized |-> 1],
      [loc_name |-> "b", outserv |-> 0, iUsage |-> 2, IsEnergized |-> 1],
      [loc_name |-> "c", outserv |-> 0, iUsage |-> 1, IsEnergized |-> 0] }

\* PassesFilter without its last test.
PassesFilter_NoEnergizedTest(busbar) ==
    /\ busbar.outserv # 1
    /\ busbar.iUsage \in ACCEPTED_BUSBAR_TYPES

\* The three `continue` tests of the filtering loop.
PassesFilter(busbar) ==
    /\ busbar.outserv # 1
    /\ busbar.iUsage \in ACCEPTED_BUSBAR_TYPES
    /\ busbar.IsEnergized = 1

RECURSIVE FilterBusbars(_)
FilterBusbars(busbarsPF) ==
    IF busbarsPF = <<>> THEN <<>>
    ELSE IF PassesFilter(Head(busbarsPF))
         THEN <<Head(busbarsPF)>> \o FilterBusbars(Tail(busbarsPF))
         ELSE FilterBusbars(Tail(busbarsPF))

\* Converter.convert_busbars: one Busbar per object, id = its position (0-based).
convert_busbars(pfb) ==
    [i \in 1..Len(pfb) |-> [name |-> pfb[i].loc_name, id |-> i - 1]]

\* One pass of the mapping loop, pfapi version: the name is (re)assigned on
\* every pass, after a warning if it is already there.
StoreIndex(d, name, idx) == DictSet(d, name, idx)

\* One pass of the mapping loop, pf_python_api version: assigned only in the
\* else branch.
StoreIndexLegacy(d, name, idx) ==
    IF DictHas(d, name) THEN d ELSE DictSet(d, name, idx)

RECURSIVE NameToIndex(_, _)
NameToIndex(pfb, k) ==   \* the dict after the first k passes (pfapi)
    IF k = 0 THEN <<>>
    ELSE StoreIndex(NameToIndex(pfb, k - 1), pfb[k].loc_name, k - 1)

RECURSIVE NameToIndexLegacy(_, _)
NameToIndexLegacy(pfb, k) ==
    IF k = 0 THEN <<>>
    ELSE StoreIndexLegacy(NameToIndexLegacy(pfb, k - 1), pfb[k].loc_name, k - 1)

\* The duplicate warnings of the mapping loop, in order.
RECURSIVE DuplicateWarnings(_, _)
DuplicateWarnings(pfb, k) ==
    IF k = 0 THEN <<>>
    ELSE DuplicateWarnings(pfb, k - 1) \o
         (IF \E j \in 1..(k - 1) : pfb[j].loc_name = pfb[k].loc_name
          THEN <<[level |-> "warning", duplicate |-> pfb[k].loc_name]>>
          ELSE <<>>)

\* read_busbars without the reset of the three structures at its top.
read_busbars_NoReset(busbarsPF) ==
    LET filtered == FilterBusbars(busbarsPF) IN
    /\ call' = [name |-> "read_busbars", arg |-> busbarsPF]
    /\ UNCHANGED <<appVars, classified_elements, elemVars, Y_bus, reduceVars>>
    /\ IF filtered = <<>>
       THEN /\ UNCHANGED <<busbar_name_to_index, PF_busbars, busbars>>
            /\ log' = <<>>
            /\ err' = "ValueError"
       ELSE /\ PF_busbars' = filtered
            /\ busbar_name_to_index' = NameToIndex(filtered, Len(filtered))
            /\ busbars' = convert_busbars(filtered)
            /\ log' = DuplicateWarnings(filtered, Len(filtered))
            /\ err' = "none"

\* Network.read_busbars (src/pfapi/core/Network.py).
read_busbars(busbarsPF) ==
    LET filtered == FilterBusbars(busbarsPF) IN
    /\ call' = [name |-> "read_busbars", arg |-> busbarsPF]
    /\ UNCHANGED <<appVars, classified_elements, elemVars, Y_bus, reduceVars>>
    /\ IF filtered = <<>>
       THEN \* the reset at the top has happened, then ValueError
            /\ busbar_name_to_index' = <<>>
            /\ PF_busbars' = <<>>
            /\ busbars' = <<>>
            /\ log' = <<>>
            /\ err' = "ValueError"
       ELSE /\ PF_busbars' = filtered
            /\ busbar_name_to_index' = NameToIndex(filtered, Len(filtered))
            /\ busbars' = convert_busbars(filtered)
            /\ log' = DuplicateWarnings(filtered, Len(filtered))
            /\ err' = "none"

\* Network.read_busbars (src/pf_python_api/Network.py): no empty check.
read_busbars_legacy(busbarsPF) ==
    LET filtered == FilterBusbars(busbarsPF) IN
    /\ call' = [name |-> "read_busbars_legacy", arg |-> busbarsPF]
    /\ UNCHANGED <<pfVars, classified_elements, elemVars, Y_bus, reduceVars>>
    /\ PF_busbars' = filtered
    /\ busbar_name_to_index' = NameToIndexLegacy(filtered, Len(filtered))
    /\ busbars' = convert_busbars(filtered)
    /\ log' = DuplicateWarnings(filtered, Len(filtered))
    /\ err' = "none"

NoCall == [name |-> "none", arg |-> <<>>]
NoMatrix == <<>>

\* Only the supported classes are keys, each with an empty list.
init_classified_elements ==
    [c \in {"ElmLne", "ElmTr2", "ElmTr3", "ElmLod", "ElmSym", "ElmCoup", "ElmZpu",
            "ElmVac", "ElmShnt", "ElmXnet"} |-> <<>>]

\* No PowerFactoryApp has been constructed, obtain_rms_results is not running.
NoPowerFactory ==
    /\ PowerFactoryApp_instance = PyNone /\ pf_calls = <<>>
    /\ simulation_events = <<>> /\ rms = PyNone
    /\ busbars_before = {}

\* No element has been converted yet, nothing has been computed.
NoElements ==
    /\ NoPowerFactory
    /\ classified_elements = init_classified_elements
    /\ lines = <<>> /\ synchronous_machines = <<>> /\ switchs = <<>>
    /\ two_winding_transformers = <<>> /\ three_winding_transformers = <<>>
    /\ loads = <<>> /\ common_impedances = <<>> /\ external_grids = <<>>
    /\ voltage_sources = <<>> /\ shunts = <<>>
    /\ Y_bus = NoMatrix
    /\ Y_reduced = NoMatrix /\ generator_bus_names_order = <<>>
    /\ ratios = <<>> /\ steps = <<>>

\* Network.__init__ without an app: _initialize_data_structures.
InitBusbars ==
    /\ busbar_name_to_index = <<>>
    /\ PF_busbars = <<>>
    /\ busbars = <<>>
    /\ log = <<>>
    /\ err = "none"
    /\ call = NoCall
    /\ network_base_mva = QInt(100)
    /\ load_flow_results = <<>>
    /\ NoElements

ReadBusbars ==
    \E busbarsPF \in SeqUpTo(PFBusbarSet, MaxBusbars) :
        read_busbars(busbarsPF) /\ UNCHANGED busbars_before

ReadBusbarsLegacy ==
    \E busbarsPF \in SeqUpTo(PFBusbarSet, MaxBusbars) : read_busbars_legacy(busbarsPF)

NextBusbars == ReadBusbars \/ ReadBusbarsLegacy

SpecBusbars == InitBusbars /\ [][NextBusbars]_vars

(***************************************************************************)
(* AdmittanceMatrix.build_admittance_matrix                                *)
(***************************************************************************)
\* A bus name that is None.
NoneBus == "<None>"

\* The network object, as the functions of AdmittanceMatrix.py read it.
Network ==
    [busbars |-> busbars, busbar_name_to_index |-> busbar_name_to_index,
     lines |-> lines, synchronous_machines |-> synchronous_machines,
     switchs |-> switchs, two_winding_transformers |-> two_winding_transformers,
     three_winding_transformers |-> three_winding_transformers, loads |-> loads,
     common_impedances |-> common_impedances, external_grids |-> external_grids,
     voltage_sources |-> voltage_sources, shunts |-> shunts,
     base_mva |-> network_base_mva, load_flow_results |-> load_flow_results]

\* np.zeros((n, n), dtype=complex); row i, column j of the array is M[i+1][j+1].
MatZeros(n, m) == [i \in 1..n |-> [j \in 1..m |-> CZero]]
MatGet(M, i, j) == M[i + 1][j + 1]
\* M[i, j] = z: an assignment where the sum is meant.
MatAddAt_Assigning(M, i, j, z) == [M EXCEPT ![i + 1][j + 1] = z]
\* M[i, j] += z
MatAddAt(M, i, j, z) == [M EXCEPT ![i + 1][j + 1] = CAdd(@, z)]
\* M[i, j] -= z
MatSubAt(M, i, j, z) == [M EXCEPT ![i + 1][j + 1] = CSub(@, z)]

\* The state of the assembly: the array so far and the exception, if any.
Built(Y) == [Y |-> Y, raised |-> "none"]
Failed(exc) == [Y |-> <<>>, raised |-> exc]

\* network.busbar_name_to_index[name]: KeyError when the name is not a key.
\* Its values are positions in network.busbars, so they index Y_bus.
HasBus(net, name) == DictHas(net.busbar_name_to_index, name)
BusIndex(net, name) == DictGet(net.busbar_name_to_index, name)

\* A stamp that leaves out the update of Y_bus[j, i].
BranchStamp_OneSided(Y, i, j, y, d) ==
    MatAddAt(MatAddAt(MatSubAt(Y, i, j, y), i, i, d), j, j, d)

\* Y_bus[i, j] -= y; Y_bus[j, i] -= y; Y_bus[i, i] += d; Y_bus[j, j] += d
BranchStamp(Y, i, j, y, d) ==
    MatAddAt(MatAddAt(MatSubAt(MatSubAt(Y, i, j, y), j, i, y), i, i, d), j, j, d)

\* if (line.parallel > 1): Y = Y * line.parallel
Parallel(n, y) == IF n > 1 THEN CScale(QInt(n), y) ELSE y

\* The four updates of a line: the diagonal takes Y + Y_shunt / 2.
StampLineAt(Y, idx_from, idx_to, y, y_shunt) ==
    BranchStamp(Y, idx_from, idx_to, y, CAdd(y, CPyDivReal(y_shunt, QInt(2))))

StampLine(net, Y, line) ==
    IF line.busbar_from = NoneBus \/ line.busbar_to = NoneBus THEN Built(Y)
    ELSE IF ~HasBus(net, line.busbar_from) \/ ~HasBus(net, line.busbar_to)
    THEN Failed("KeyError")
    ELSE Built(StampLineAt(Y, BusIndex(net, line.busbar_from), BusIndex(net, line.busbar_to),
                           Parallel(line.parallel, line.Y_line),
                           Parallel(line.parallel, line.Y_shunt)))

\* Single-terminal elements: Y_bus[idx, idx] += element.Y
StampDiagonal(net, Y, bus, y) ==
    IF ~HasBus(net, bus) THEN Failed("KeyError")
    ELSE IF y = PyNone THEN Failed("TypeError")
    ELSE Built(MatAddAt(Y, BusIndex(net, bus), BusIndex(net, bus), y))

StampSwitch(net, Y, switch) ==
    IF switch.busbar_from = NoneBus \/ switch.busbar_to = NoneBus THEN Built(Y)
    ELSE IF ~HasBus(net, switch.busbar_from) \/ ~HasBus(net, switch.busbar_to)
    THEN Failed("KeyError")
    ELSE Built(BranchStamp(Y, BusIndex(net, switch.busbar_from),
                           BusIndex(net, switch.busbar_to), switch.Y, switch.Y))

\* Y_bus[f, f] += Y_aa * parallel, [t, t] += Y_bb * .., [f, t] += Y_ab * .., [t, f] += Y_ba * ..
StampTwoWindingTransformerAt(Y, idx_from, idx_to, n, Y_elements) ==
    IF CIsRaised(Y_elements.Y_aa) THEN Failed(RaisedOf(Y_elements.Y_aa))
    ELSE Built(MatAddAt(MatAddAt(MatAddAt(MatAddAt(Y,
                 idx_from, idx_from, CScale(n, Y_elements.Y_aa)),
                 idx_to, idx_to, CScale(n, Y_elements.Y_bb)),
                 idx_from, idx_to, CScale(n, Y_elements.Y_ab)),
                 idx_to, idx_from, CScale(n, Y_elements.Y_ba)))

StampTwoWindingTransformer(net, Y, transformer) ==
    IF transformer.busbar_from = NoneBus \/ transformer.busbar_to = NoneBus THEN Built(Y)
    ELSE IF ~HasBus(net, transformer.busbar_from) \/ ~HasBus(net, transformer.busbar_to)
    THEN Failed("KeyError")
    ELSE StampTwoWindingTransformerAt(Y, BusIndex(net, transformer.busbar_from),
             BusIndex(net, transformer.busbar_to), QInt(transformer.parallel),
             TwoWindingTransformer_get_admittance_matrix_elements(transformer, net.base_mva))

RECURSIVE StampBlock(_, _, _, _)
\* Y_bus[idx[r], idx[c]] += Y_delta[r, c] for the first k of the nine entries, row by row.
StampBlock(Y, idx, Y_delta, k) ==
    IF k = 0 THEN Y
    ELSE MatAddAt(StampBlock(Y, idx, Y_delta, k - 1),
                  idx[((k - 1) \div 3) + 1], idx[((k - 1) % 3) + 1],
                  Y_delta[((k - 1) \div 3) + 1][((k - 1) % 3) + 1])

StampThreeWindingTransformerAt(Y, idx, Y_delta) ==
    IF \E r \in 1..3 : CIsRaised(Y_delta[r][r]) THEN Failed("ZeroDivisionError")
    ELSE Built(StampBlock(Y, idx, Y_delta, 9))

StampThreeWindingTransformer(net, Y, transformer) ==
    IF ~HasBus(net, transformer.bus_HV) \/ ~HasBus(net, transformer.bus_MV)
       \/ ~HasBus(net, transformer.bus_LV)
    THEN Failed("KeyError")
    ELSE StampThreeWindingTransformerAt(Y,
             << BusIndex(net, transformer.bus_HV), BusIndex(net, transformer.bus_MV),
                BusIndex(net, transformer.bus_LV) >>,
             ThreeWindingTransformer_delta_admittance_matrix(transformer))

\* Y_bus[f, f] += Y; Y_bus[t, t] += Y; Y_bus[f, t] -= Y; Y_bus[t, f] -= Y
StampCommonImpedance(net, Y, common_impedance) ==
    IF ~HasBus(net, common_impedance.bus_from) \/ ~HasBus(net, common_impedance.bus_to)
    THEN Failed("KeyError")
    ELSE Built(BranchStamp(Y, BusIndex(net, common_impedance.bus_from),
                           BusIndex(net, common_impedance.bus_to),
                           common_impedance.Y, common_impedance.Y))

\* The body of the `for` loop that the element's class selects.
Stamp(net, Y, element) ==
    CASE element.cls = "Line" -> StampLine(net, Y, element)
      [] element.cls = "Switch" -> StampSwitch(net, Y, element)
      [] element.cls = "TwoWindingTransformer" -> StampTwoWindingTransformer(net, Y, element)
      [] element.cls = "ThreeWindingTransformer" ->
             StampThreeWindingTransformer(net, Y, element)
      [] element.cls = "CommonImpedance" -> StampCommonImpedance(net, Y, element)
      [] element.cls = "ShuntElement" -> StampDiagonal(net, Y, element.bus_to, element.Y)
      [] OTHER -> StampDiagonal(net, Y, element.busbar_to, element.Y)

\* The order in which build_admittance_matrix goes through the element lists.
AssemblyOrder(net) ==
    net.lines \o net.synchronous_machines \o net.switchs \o net.two_winding_transformers
    \o net.three_winding_transformers \o net.loads \o net.common_impedances
    \o net.external_grids \o net.voltage_sources \o net.shunts

\* An exception ends the function: nothing is stamped after it.
StampNext(net, before, element) ==
    IF before.raised # "none" THEN before ELSE Stamp(net, before.Y, element)

RECURSIVE StampAll(_, _, _, _)
\* The loops over the first k elements of the assembly order.
StampAll(net, st, elements, k) ==
    IF k = 0 THEN st
    ELSE StampNext(net, StampAll(net, st, elements, k - 1), elements[k])

\* [Y, raised]: the array returned, or the exception that left the function.
build_admittance_matrix(net) ==
    StampAll(net, Built(MatZeros(Len(net.busbars), Len(net.busbars))),
             AssemblyOrder(net), Len(AssemblyOrder(net)))

(***************************************************************************)
(* SpecYbus: a network is filled element by element, each element built by *)
(* its constructor on the network's base and appended to its list          *)
(* (x = Class(...); xs.append(x)), and build_admittance_matrix is then run *)
(* on it.                                                                  *)
(***************************************************************************)
\* The bound on the number of elements of a network, all classes together.
MaxElements == 2

\* The bus sets of the networks: what read_busbars leaves for these inputs.
BusbarInputs ==
    { << [loc_name |-> "a", outserv |-> 0, iUsage |-> 0, IsEnergized |-> 1],
         [loc_name |-> "b", outserv |-> 0, iUsage |-> 0, IsEnergized |-> 1],
         [loc_name |-> "c", outserv |-> 0, iUsage |-> 1, IsEnergized |-> 1] >>,
      << [loc_name |-> "b", outserv |-> 0, iUsage |-> 0, IsEnergized |-> 1],
         [loc_name |-> "a", outserv |-> 0, iUsage |-> 0, IsEnergized |-> 1] >> }

\* The system base the elements are built on: Network's default base_mva.
BaseMVA == QInt(100)

\* Constructor arguments, integers and fractions written as reals.
LineArgs(from, to, R, X, B1, B0, par, base) ==
    [name |-> "line", connected_busbar_from |-> from, connected_busbar_to |-> to,
     rated_voltage |-> QInt(100), resistance |-> R, reactance |-> X,
     susceptance_effective |-> B1, susceptance_ground |-> B0, parallel |-> par,
     base_mva |-> base]

\* The PowerFactory object of a machine (ElmSym), as obtain_generator_power reads
\* it: the name of its terminal's bus, the rating of its type, its P and Q.
MachineData(bus, sgn, P_bus1, Q_bus1) ==
    [bus1 |-> bus, sgn |-> sgn, m_P_bus1 |-> P_bus1, m_Q_bus1 |-> Q_bus1]

GeneratorArgs(name, bus, r_a, x_as, x_d1, P_bus1, Q_bus1, base) ==
    [data_object |-> MachineData(bus, QInt(100), P_bus1, Q_bus1),
     name |-> name, connected_busbar |-> bus, S_rat |-> QInt(100), U_rat |-> QInt(10),
     r_a |-> r_a, x_as |-> x_as, x_d1 |-> x_d1, base_mva |-> base]

SwitchArgs(from, to, R_on, base) ==
    [name |-> "switch", connected_busbar_from |-> from, connected_busbar_to |-> to,
     on_resistance |-> R_on, voltage_level |-> QInt(10), base_mva |-> base]

Tr2Args(from, to, S_rat, U_k, U_k_r, U_rated_HV, par, base) ==
    [name |-> "tr2", bus_from |-> from, bus_to |-> to, S_rat |-> S_rat,
     U_k |-> U_k, U_k_r |-> U_k_r, phase_shift |-> QZero,
     U_nominal_HV |-> QInt(110), U_nominal_LV |-> QInt(10),
     U_rated_HV |-> U_rated_HV, U_rated_LV |-> QInt(10),
     parallel |-> par, tap_position |-> 0, voltage_per_tap |-> QZero, base_mva |-> base]

\* A transformer with a phase shift and a tap changer away from its neutral position.
Tr2TapArgs(from, to, phase_shift, tap_position, voltage_per_tap, par, base) ==
    [name |-> "tr2", bus_from |-> from, bus_to |-> to, S_rat |-> QInt(100),
     U_k |-> QInt(10), U_k_r |-> QInt(6), phase_shift |-> phase_shift,
     U_nominal_HV |-> QInt(110), U_nominal_LV |-> QInt(10),
     U_rated_HV |-> QInt(110), U_rated_LV |-> QInt(10),
     parallel |-> par, tap_position |-> tap_position,
     voltage_per_tap |-> voltage_per_tap, base_mva |-> base]

Tr3Args(hv, mv, lv, u_AB, u_BC, u_CA, base) ==
    [name |-> "tr3", bus_HV |-> hv, bus_MV |-> mv, bus_LV |-> lv,
     u_k_percent_AB |-> u_AB, u_k_percent_BC |-> u_BC, u_k_percent_CA |-> u_CA,
     S_nom_AB |-> QInt(100), S_nom_BC |-> QInt(100), S_nom_CA |-> QInt(50),
     base_mva |-> base]

LoadArgs(bus, P, Qr, voltage, base) ==
    [name |-> "load", connected_busbar |-> bus, P |-> P, Q |-> Qr, voltage |-> voltage,
     base_mva |-> base]

ZpuArgs(from, to, R, X, S_rat, base) ==
    [name |-> "zpu", bus_from |-> from, bus_to |-> to, R |-> R, X |-> X,
     U_nominal_HV |-> QInt(10), U_nominal_LV |-> QInt(10), S_rat |-> S_rat,
     tap_ratio |-> QOne, phase_shift |-> QZero, base_mva |-> base]

XnetArgs(bus, S_sc, c_factor, r_x, base) ==
    [name |-> "xnet", connected_busbar |-> bus, U_rat |-> QInt(10), S_sc |-> S_sc,
     c_factor |-> c_factor, r_x_ratio |-> r_x, base_mva |-> base]

VacArgs(bus, R, X, base) ==
    [name |-> "vac", connected_busbar |-> bus, U_rat |-> QInt(10), R |-> R, X |-> X,
     base_mva |-> base]

ShuntData(bcap, xrea, rrea, c1, rpara) ==
    [bcap |-> bcap, xrea |-> xrea, rrea |-> rrea, gparac |-> QInt(1000000),
     fres |-> <<7, 44>>, c1 |-> c1, c2 |-> QInt(1000000), rpara |-> rpara]

ShuntArgs(bus, shunt_type, data, base) ==
    [name |-> "shunt", bus_to |-> bus, U_rat |-> QInt(10), shunt_type |-> shunt_type,
     data_object |-> data, base_mva |-> base]

LineInputs ==
    { LineArgs("a", "b", QZero, QInt(10), QZero, QZero, 1, BaseMVA),
      LineArgs("b", "a", QInt(5), QInt(10), QInt(10000), QInt(10000), 2, BaseMVA),
      LineArgs("a", "b", QZero, QZero, QZero, QZero, 1, BaseMVA),
      LineArgs("b", "c", QZero, QInt(20), QZero, QZero, 1, BaseMVA),
      LineArgs(NoneBus, "a", QZero, QInt(20), QZero, QZero, 1, BaseMVA),
      LineArgs("a", "b", QZero, QInt(10), QInt(10000), QInt(10000), 0, BaseMVA) }

\* The machines the reduction is run on: G2 and G4 share bus "b".
MachineInputs ==
    { GeneratorArgs("G1", "a", QZero, <<1, 10>>, <<1, 10>>, QInt(80), QInt(60), BaseMVA),
      GeneratorArgs("G2", "b", QZero, <<1, 10>>, <<3, 10>>, QInt(50), QZero, BaseMVA),
      GeneratorArgs("G3", "c", QZero, <<1, 10>>, <<1, 10>>, QInt(40), QInt(-20), BaseMVA),
      GeneratorArgs("G4", "b", QZero, <<1, 10>>, <<7, 10>>, QInt(20), QInt(10), BaseMVA) }

GeneratorInputs ==
    { p \in MachineInputs : p.name # "G4" }
    \cup { GeneratorArgs("G0", "a", QZero, QZero, QZero, QZero, QZero, BaseMVA) }

SwitchInputs ==
    { SwitchArgs("a", "b", <<1, 100>>, BaseMVA),
      SwitchArgs("a", "b", QZero, BaseMVA),
      SwitchArgs("a", "c", <<1, 100>>, BaseMVA) }

Tr2Inputs ==
    { Tr2Args("a", "b", QInt(100), QInt(10), QZero, QInt(110), 1, BaseMVA),
      Tr2Args("a", "b", QInt(50), QInt(10), QInt(6), QInt(220), 2, BaseMVA),
      Tr2Args("b", "a", QInt(100), QZero, QZero, QInt(110), 1, BaseMVA),
      Tr2Args("a", "b", QInt(100), QInt(6), QInt(10), QInt(110), 1, BaseMVA),
      Tr2Args("c", "a", QInt(100), QInt(10), QZero, QInt(110), 1, BaseMVA),
      Tr2TapArgs("b", "a", QInt(30), 2, <<5, 2>>, 2, BaseMVA) }

Tr3Inputs ==
    { Tr3Args("a", "b", "c", QInt(10), QInt(10), QInt(10), BaseMVA),
      Tr3Args("a", "b", "c", QZero, QInt(10), QInt(10), BaseMVA),
      Tr3Args("a", "b", "a", QInt(10), QInt(20), QInt(10), BaseMVA) }

LoadInputs ==
    { LoadArgs("a", QInt(50), QInt(25), QOne, BaseMVA),
      LoadArgs("c", QInt(50), QInt(25), QOne, BaseMVA),
      LoadArgs("b", QInt(50), QInt(25), QZero, BaseMVA) }

ZpuInputs ==
    { ZpuArgs("a", "b", <<3, 10>>, <<2, 5>>, QInt(100), BaseMVA),
      ZpuArgs("a", "b", QZero, QZero, QInt(100), BaseMVA),
      ZpuArgs("a", "b", <<3, 10>>, <<2, 5>>, QZero, BaseMVA),
      ZpuArgs("c", "b", <<3, 10>>, <<2, 5>>, QInt(100), BaseMVA) }

XnetInputs ==
    { XnetArgs("a", QInt(100), QOne, QZero, BaseMVA),
      XnetArgs("a", QInt(100), QZero, QZero, BaseMVA),
      XnetArgs("c", QInt(100), QOne, QZero, BaseMVA) }

VacInputs ==
    { VacArgs("a", QInt(1), QInt(2), BaseMVA),
      VacArgs("b", QZero, QZero, BaseMVA),
      VacArgs("c", QInt(1), QInt(2), BaseMVA) }

ShuntInputs ==
    { ShuntArgs("a", t, ShuntData(QInt(1000000), QInt(2), QZero, QInt(1000000), QOne), BaseMVA)
        : t \in 0..5 }
    \cup { ShuntArgs("b", 0, ShuntData(QInt(1000000), QZero, QZero, QInt(1000000), QOne), BaseMVA),
           ShuntArgs("b", 4, ShuntData(QInt(1000000), QInt(2), QZero, QZero, QOne), BaseMVA) }

\* What each constructor makes of each of its inputs.
LineObjects == [p \in LineInputs |-> Line(p)]
SynchronousGeneratorObjects ==
    [p \in GeneratorInputs \cup MachineInputs |-> SynchronousGenerator(p)]
SwitchObjects == [p \in SwitchInputs |-> Switch(p)]
TwoWindingTransformerObjects == [p \in Tr2Inputs |-> TwoWindingTransformer(p)]
ThreeWindingTransformerObjects == [p \in Tr3Inputs |-> ThreeWindingTransformer(p)]
LoadObjects == [p \in LoadInputs |-> Load(p)]
CommonImpedanceObjects == [p \in ZpuInputs |-> CommonImpedance(p)]
ExternalGridObjects == [p \in XnetInputs |-> ExternalGrid(p)]
VoltageSourceACObjects == [p \in VacInputs |-> VoltageSourceAC(p)]
ShuntElementObjects == [p \in ShuntInputs |-> ShuntElement(p)]

TotalElements ==
    Len(lines) + Len(synchronous_machines) + Len(switchs) + Len(two_winding_transformers)
    + Len(three_winding_transformers) + Len(loads) + Len(common_impedances)
    + Len(external_grids) + Len(voltage_sources) + Len(shunts)

\* The calls of the pipeline, in the order the caller makes them.
PipelineCalls ==
    {"build_admittance_matrix", "reduce_matrix", "calculate_power_distribution_ratios"}

\* The network is still being filled: nothing has raised, nothing has been built.
Filling == err = "none" /\ call.name \notin PipelineCalls /\ TotalElements < MaxElements

\* x = Class(args); xs.append(x): the object joins its list unless __init__ raised.
Appended(xs, x) == IF x.raised = "none" THEN Append(xs, x) ELSE xs

AddLine ==
    \E p \in LineInputs : \E x \in {LineObjects[p]} :
        /\ Filling
        /\ lines' = Appended(lines, x)
        /\ err' = x.raised
        /\ call' = [name |-> "Line", arg |-> p]
        /\ UNCHANGED <<pfVars, topoVars, log, synchronous_machines, switchs, two_winding_transformers,
                       three_winding_transformers, loads, common_impedances, external_grids,
                       voltage_sources, shunts, network_base_mva, Y_bus, reduceVars>>

AddSynchronousGenerator ==
    \E p \in GeneratorInputs : \E x \in {SynchronousGeneratorObjects[p]} :
        /\ Filling
        /\ synchronous_machines' = Appended(synchronous_machines, x)
        /\ err' = x.raised
        /\ call' = [name |-> "SynchronousGenerator", arg |-> p]
        /\ UNCHANGED <<pfVars, topoVars, log, lines, switchs, two_winding_transformers,
                       three_winding_transformers, loads, common_impedances, external_grids,
                       voltage_sources, shunts, network_base_mva, Y_bus, reduceVars>>

AddSwitch ==
    \E p \in SwitchInputs : \E x \in {SwitchObjects[p]} :
        /\ Filling
        /\ switchs' = Appended(switchs, x)
        /\ err' = x.raised
        /\ call' = [name |-> "Switch", arg |-> p]
        /\ UNCHANGED <<pfVars, topoVars, log, lines, synchronous_machines, two_winding_transformers,
                       three_winding_transformers, loads, common_impedances, external_grids,
                       voltage_sources, shunts, network_base_mva, Y_bus, reduceVars>>

AddTwoWindingTransformer ==
    \E p \in Tr2Inputs : \E x \in {TwoWindingTransformerObjects[p]} :
        /\ Filling
        /\ two_winding_transformers' = Appended(two_winding_transformers, x)
        /\ err' = x.raised
        /\ call' = [name |-> "TwoWindingTransformer", arg |-> p]
        /\ UNCHANGED <<pfVars, topoVars, log, lines, synchronous_machines, switchs,
                       three_winding_transformers, loads, common_impedances, external_grids,
                       voltage_sources, shunts, network_base_mva, Y_bus, reduceVars>>

AddThreeWindingTransformer ==
    \E p \in Tr3Inputs : \E x \in {ThreeWindingTransformerObjects[p]} :
        /\ Filling
        /\ three_winding_transformers' = Appended(three_winding_transformers, x)
        /\ err' = x.raised
        /\ call' = [name |-> "ThreeWindingTransformer", arg |-> p]
        /\ UNCHANGED <<pfVars, topoVars, log, lines, synchronous_machines, switchs,
                       two_winding_transformers, loads, common_impedances, external_grids,
                       voltage_sources, shunts, network_base_mva, Y_bus, reduceVars>>

AddLoad ==
    \E p \in LoadInputs : \E x \in {LoadObjects[p]} :
        /\ Filling
        /\ loads' = Appended(loads, x)
        /\ err' = x.raised
        /\ call' = [name |-> "Load", arg |-> p]
        /\ UNCHANGED <<pfVars, topoVars, log, lines, synchronous_machines, switchs,
                       two_winding_transformers, three_winding_transformers,
                       common_impedances, external_grids, voltage_sources, shunts,
                       network_base_mva, Y_bus, reduceVars>>

AddCommonImpedance ==
    \E p \in ZpuInputs : \E x \in {CommonImpedanceObjects[p]} :
        /\ Filling
        /\ common_impedances' = Appended(common_impedances, x)
        /\ err' = x.raised
        /\ call' = [name |-> "CommonImpedance", arg |-> p]
        /\ UNCHANGED <<pfVars, topoVars, log, lines, synchronous_machines, switchs,
                       two_winding_transformers, three_winding_transformers, loads,
                       external_grids, voltage_sources, shunts, network_base_mva, Y_bus, reduceVars>>

AddExternalGrid ==
    \E p \in XnetInputs : \E x \in {ExternalGridObjects[p]} :
        /\ Filling
        /\ external_grids' = Appended(external_grids, x)
        /\ err' = x.raised
        /\ call' = [name |-> "ExternalGrid", arg |-> p]
        /\ UNCHANGED <<pfVars, topoVars, log, lines, synchronous_machines, switchs,
                       two_winding_transformers, three_winding_transformers, loads,
                       common_impedances, voltage_sources, shunts, network_base_mva, Y_bus, reduceVars>>

AddVoltageSourceAC ==
    \E p \in VacInputs : \E x \in {VoltageSourceACObjects[p]} :
        /\ Filling
        /\ voltage_sources' = Appended(voltage_sources, x)
        /\ err' = x.raised
        /\ call' = [name |-> "VoltageSourceAC", arg |-> p]
        /\ UNCHANGED <<pfVars, topoVars, log, lines, synchronous_machines, switchs,
                       two_winding_transformers, three_winding_transformers, loads,
                       common_impedances, external_grids, shunts, network_base_mva, Y_bus, reduceVars>>

AddShuntElement ==
    \E p \in ShuntInputs : \E x \in {ShuntElementObjects[p]} :
        /\ Filling
        /\ shunts' = Appended(shunts, x)
        /\ err' = x.raised
        /\ call' = [name |-> "ShuntElement", arg |-> p]
        /\ UNCHANGED <<pfVars, topoVars, log, lines, synchronous_machines, switchs,
                       two_winding_transformers, three_winding_transformers, loads,
                       common_impedances, external_grids, voltage_sources,
                       network_base_mva, Y_bus, reduceVars>>

\* Y_bus = build_admittance_matrix(network)
BuildAdmittanceMatrix ==
    \E built \in {build_admittance_matrix(Network)} :
    /\ err = "none"
    /\ call.name \notin PipelineCalls
    /\ call' = [name |-> "build_admittance_matrix", arg |-> <<>>]
    /\ err' = built.raised
    /\ Y_bus' = IF built.raised = "none" THEN built.Y ELSE NoMatrix
    /\ UNCHANGED <<pfVars, topoVars, log, elemVars, reduceVars>>

\* A network whose buses have been read and that holds no element yet.
InitYbus ==
    \E busbarsPF \in BusbarInputs :
        /\ PF_busbars = FilterBusbars(busbarsPF)
        /\ busbar_name_to_index = NameToIndex(FilterBusbars(busbarsPF), Len(FilterBusbars(busbarsPF)))
        /\ busbars = convert_busbars(FilterBusbars(busbarsPF))
        /\ log = <<>>
        /\ err = "none"
        /\ call = [name |-> "read_busbars", arg |-> busbarsPF]
        /\ network_base_mva = BaseMVA
        /\ load_flow_results = <<>>
        /\ NoElements

NextYbus ==
    \/ AddLine
    \/ AddSynchronousGenerator
    \/ AddSwitch
    \/ AddTwoWindingTransformer
    \/ AddThreeWindingTransformer
    \/ AddLoad
    \/ AddCommonImpedance
    \/ AddExternalGrid
    \/ AddVoltageSourceAC
    \/ AddShuntElement
    \/ BuildAdmittanceMatrix

SpecYbus == InitYbus /\ [][NextYbus]_vars

(***************************************************************************)
(* numpy arrays: an array is the sequence of its rows.                     *)
(***************************************************************************)
\* M[r0:r1, c0:c1]
Slice(M, r0, r1, c0, c1) ==
    [i \in 1..(r1 - r0) |-> [j \in 1..(c1 - c0) |-> M[r0 + i][c0 + j]]]

\* M[np.ix_(idx, idx)], idx a list of 0-based positions.
MatIx(M, idx) == [i \in 1..Len(idx) |-> [j \in 1..Len(idx) |-> M[idx[i] + 1][idx[j] + 1]]]

RECURSIVE Dot(_, _, _, _, _)
\* The sum of A[i, t] * B[t, j] over the first k values of t.
Dot(A, B, i, j, k) ==
    IF k = 0 THEN CZero ELSE CAdd(Dot(A, B, i, j, k - 1), CMul(A[i][k], B[k][j]))

\* A @ B, B with m columns.
MatMul(A, B, m) == [i \in 1..Len(A) |-> [j \in 1..m |-> Dot(A, B, i, j, Len(B))]]

\* A - B
MatSub(A, B) == [i \in 1..Len(A) |-> [j \in 1..Len(A[i]) |-> CSub(A[i][j], B[i][j])]]

\* M without row r and column c.
Minor(M, r, c) ==
    [i \in 1..(Len(M) - 1) |-> [j \in 1..(Len(M) - 1) |->
        M[IF i < r THEN i ELSE i + 1][IF j < c THEN j ELSE j + 1]]]

RECURSIVE Det(_, _)
\* The expansion of the determinant of M along its first row, columns 1..k.
Det(M, k) ==
    IF Len(M) = 0 THEN CReal(QOne)
    ELSE IF Len(M) = 1 THEN M[1][1]
    ELSE IF k = 0 THEN CZero
    ELSE CAdd(Det(M, k - 1),
              CMul(IF k % 2 = 1 THEN M[1][k] ELSE CNeg(M[1][k]),
                   Det(Minor(M, 1, k), Len(M) - 1)))

Determinant(M) == Det(M, Len(M))

Cofactor(M, i, j) ==
    IF (i + j) % 2 = 0 THEN Determinant(Minor(M, i, j)) ELSE CNeg(Determinant(Minor(M, i, j)))

\* The inverse of a matrix whose determinant is not zero.
Inverse(M, det) ==
    [i \in 1..Len(M) |-> [j \in 1..Len(M) |-> CNpDiv(Cofactor(M, j, i), det)]]

\* A variant that returns zeros for a singular matrix instead of raising.
linalg_inv_of_Lenient(M, det) ==
    [raised |-> "none",
     inv |-> IF det = CZero THEN MatZeros(Len(M), Len(M)) ELSE Inverse(M, det)]

\* np.linalg.inv: LinAlgError("Singular matrix") for a singular matrix.  The
\* arithmetic is exact here, so singular means a determinant of zero.
linalg_inv_of(M, det) ==
    IF det = CZero THEN [raised |-> "LinAlgError", inv |-> <<>>]
    ELSE [raised |-> "none", inv |-> Inverse(M, det)]

linalg_inv(M) == linalg_inv_of(M, Determinant(M))

(***************************************************************************)
(* AdmittanceMatrix.KronReduction and AdmittanceMatrix.reduce_matrix       *)
(***************************************************************************)
\* Y_reduced = Y_RR - Y_RL @ Y_LL_inv @ Y_LR, unless the inversion raised.
KronReduction_schur(Y_RR, Y_RL, Y_LR, Y_LL_inv, p) ==
    IF Y_LL_inv.raised # "none" THEN Failed(Y_LL_inv.raised)
    ELSE Built(MatSub(Y_RR, MatMul(MatMul(Y_RL, Y_LL_inv.inv, Len(Y_LR)), Y_LR, p)))

\* A variant that eliminates nothing and returns the block of the kept nodes.
KronReduction_KeepsY_RR(Y, p) == Built(Slice(Y, 0, p, 0, p))

KronReduction(Y, p) ==
    KronReduction_schur(Slice(Y, 0, p, 0, p), Slice(Y, 0, p, p, Len(Y)),
                        Slice(Y, p, Len(Y), 0, p),
                        linalg_inv(Slice(Y, p, Len(Y), p, Len(Y))), p)

\* Y_LL of the extended matrix Y with p synthetic nodes.
Y_LL_of(Y, p) == Slice(Y, p, Len(Y), p, Len(Y))

\* [1 if bus in gen_bus_names else 0 for bus in network.busbar_name_to_index]
is_gen_bus(net) ==
    [k \in 1..Len(net.busbar_name_to_index) |->
        IF \E g \in 1..Len(net.synchronous_machines) :
               /\ net.synchronous_machines[g].busbar_to # NoneBus
               /\ net.synchronous_machines[g].busbar_to = net.busbar_name_to_index[k][1]
        THEN 1 ELSE 0]

RECURSIVE Where(_, _, _)
\* np.where(flags == value)[0] among the first k flags: 0-based, ascending.
Where(flags, value, k) ==
    IF k = 0 THEN <<>>
    ELSE IF flags[k] = value THEN Append(Where(flags, value, k - 1), k - 1)
    ELSE Where(flags, value, k - 1)

\* [network.busbars[i].name for i in generator_bus_indices]
NamesAt(net, generator_bus_indices) ==
    [i \in 1..Len(generator_bus_indices) |-> net.busbars[generator_bus_indices[i] + 1].name]

\* range(n) left as it is.
SortedIdx_Unsorted(flags) == [k \in 1..Len(flags) |-> k - 1]

\* sorted(range(n), key=lambda i: all_bus_names[i] in gen_bus_names): the sort
\* is stable and False < True.
SortedIdx(flags) == Where(flags, 0, Len(flags)) \o Where(flags, 1, Len(flags))

\* The position in network.synchronous_machines of the last generator on the
\* bus, 0 when there is none: the loops assign y_gen[i, i] for each of them.
LastOn(machines, bus_name) ==
    IF \E g \in 1..Len(machines) : machines[g].busbar_to = bus_name
    THEN CHOOSE g \in 1..Len(machines) :
             /\ machines[g].busbar_to = bus_name
             /\ \A h \in (g + 1)..Len(machines) : machines[h].busbar_to # bus_name
    ELSE 0

\* Entry i of the diagonal of y_gen: np.eye leaves 1 where no generator matches.
y_gen_at(machines, g) == IF g = 0 THEN CReal(QOne) ELSE machines[g].Y

y_gen(net, order) ==
    [i \in 1..Len(order) |-> [j \in 1..Len(order) |->
        IF i = j THEN y_gen_at(net.synchronous_machines, LastOn(net.synchronous_machines, order[i]))
        ELSE CZero]]

\* np.block([[y_gen, top_right], [bottom_left, Y_bus_sorted]]) with
\* top_right = hstack((y_dist, -y_gen)), bottom_left = vstack((y_dist.T, -y_gen));
\* p generator buses among n buses.
Y_extended(yg, Y_bus_sorted, p, n) ==
    [r \in 1..(p + n) |-> [c \in 1..(p + n) |->
        IF r <= p /\ c <= p THEN yg[r][c]
        ELSE IF r <= p THEN (IF c - p <= n - p THEN CZero ELSE CNeg(yg[r][c - n]))
        ELSE IF c <= p THEN (IF r - p <= n - p THEN CZero ELSE CNeg(yg[r - n][c]))
        ELSE Y_bus_sorted[r - p][c - p]]]

\* The extended matrix of the network, from the flags of its buses.
ExtendedOf(Y, net, flags, order) ==
    Y_extended(y_gen(net, order), MatIx(Y, SortedIdx(flags)), Len(order), Len(flags))

ExtendedMatrix(Y, net) ==
    ExtendedOf(Y, net, is_gen_bus(net),
               NamesAt(net, Where(is_gen_bus(net), 1, Len(is_gen_bus(net)))))

reduce_matrix_with(reduced, order) ==
    [Y |-> reduced.Y, raised |-> reduced.raised,
     names |-> IF reduced.raised = "none" THEN order ELSE <<>>]

reduce_matrix_of(Y, net, order) ==
    reduce_matrix_with(KronReduction(ExtendedMatrix(Y, net), Len(order)), order)

\* [Y, names, raised]: the pair returned, or the exception.
reduce_matrix(Y, net) ==
    reduce_matrix_of(Y, net, NamesAt(net, Where(is_gen_bus(net), 1, Len(is_gen_bus(net)))))

(***************************************************************************)
(* synchro_power_coefficients.calculate_power_distribution_ratios          *)
(* A vector is a sequence; a helper's result is [value, raised].           *)
(***************************************************************************)
\* np.cos(np.radians(phi)) and np.sin(np.radians(phi)): the load-flow angles
\* of the networks here are 0 degrees, where both are exact.
CosDeg(phi) == CASE phi = QZero -> QOne
SinDeg(phi) == CASE phi = QZero -> QZero

\* The position of the first generator on the bus (the loop breaks at it), or 0.
FirstOn(machines, bus_name) ==
    IF \E g \in 1..Len(machines) : machines[g].busbar_to = bus_name
    THEN CHOOSE g \in 1..Len(machines) :
             /\ machines[g].busbar_to = bus_name
             /\ \A h \in 1..(g - 1) : machines[h].busbar_to # bus_name
    ELSE 0

\* V * (np.cos(np.radians(phi)) + 1j * np.sin(np.radians(phi)))
V_complex(result) == CScale(result.voltage, C(CosDeg(result.angle), SinDeg(result.angle)))

Value(v) == [value |-> v, raised |-> "none"]
Raised(exc) == [value |-> <<>>, raised |-> exc]

\* [V_gens, Z_gens]; KeyError when a generator bus has no load-flow result,
\* ZeroDivisionError for 1 / gen.Y with gen.Y = 0.
obtain_generator_voltage_and_impedance(net, order, lf_results) ==
    IF \E i \in 1..Len(order) :
           FirstOn(net.synchronous_machines, order[i]) # 0 /\ ~DictHas(lf_results, order[i])
    THEN Raised("KeyError")
    ELSE IF \E i \in 1..Len(order) :
           /\ FirstOn(net.synchronous_machines, order[i]) # 0
           /\ net.synchronous_machines[FirstOn(net.synchronous_machines, order[i])].Y = CZero
    THEN Raised("ZeroDivisionError")
    ELSE Value([V_gens |-> [i \in 1..Len(order) |->
                    IF FirstOn(net.synchronous_machines, order[i]) = 0 THEN CZero
                    ELSE V_complex(DictGet(lf_results, order[i]))],
                Z_gens |-> [i \in 1..Len(order) |->
                    IF FirstOn(net.synchronous_machines, order[i]) = 0 THEN CZero
                    ELSE CPyDiv(CReal(QOne),
                                net.synchronous_machines[
                                    FirstOn(net.synchronous_machines, order[i])].Y)]])

\* network.classified_elements['ElmSym']: the PowerFactory objects of the
\* machines, in the order of network.synchronous_machines.
ElmSym(net) ==
    [g \in 1..Len(net.synchronous_machines) |-> net.synchronous_machines[g].data_object]

FirstMachineOn(machines, bus_name) ==
    IF \E g \in 1..Len(machines) : machines[g].bus1 = bus_name
    THEN CHOOSE g \in 1..Len(machines) :
             /\ machines[g].bus1 = bus_name
             /\ \A h \in 1..(g - 1) : machines[h].bus1 # bus_name
    ELSE 0

\* P_gens[i] + 1j * Q_gens[i]: P / rat_power and Q / rat_power of the first
\* machine on the bus, 0 when there is none.
PowerOf(machines, g) ==
    IF g = 0 THEN CZero
    ELSE CNorm(C(PyDiv(machines[g].m_P_bus1, machines[g].sgn),
                 PyDiv(machines[g].m_Q_bus1, machines[g].sgn)))

PowersOf(machines, order) ==
    [i \in 1..Len(order) |-> PowerOf(machines, FirstMachineOn(machines, order[i]))]

PowersChecked(S_gens) ==
    IF \E i \in 1..Len(S_gens) : CIsRaised(S_gens[i]) THEN Raised("ZeroDivisionError")
    ELSE Value(S_gens)

obtain_generator_power(net, order) == PowersChecked(PowersOf(ElmSym(net), order))

\* E = V_gens + Z_gens * (np.conj(P_gens + 1j * Q_gens) / np.conj(V_gens))
calculate_generators_internal_voltage_and_angle(V_gens, Z_gens, S_gens) ==
    [i \in 1..Len(V_gens) |->
        CAdd(V_gens[i], CMul(Z_gens[i], CNpDiv(CConj(S_gens[i]), CConj(V_gens[i]))))]

\* next((gen.busbar_to for gen in ... if gen.name == gen_out_name), None)
dist_bus_name(machines, gen_out_name) ==
    IF \E g \in 1..Len(machines) : machines[g].name = gen_out_name
    THEN machines[CHOOSE g \in 1..Len(machines) :
                      /\ machines[g].name = gen_out_name
                      /\ \A h \in 1..(g - 1) : machines[h].name # gen_out_name].busbar_to
    ELSE NoneBus

\* list.index: the 0-based position of the first occurrence.
IndexOf(list, x) ==
    (CHOOSE i \in 1..Len(list) : list[i] = x /\ \A h \in 1..(i - 1) : list[h] # x) - 1

\* K[i, dist_bus] = E_abs[dist_bus] * E_abs[i] * (B_K[i, d] * cos(E_angle[i] - E_angle[d])
\*                                              - G_K[i, d] * sin(E_angle[i] - E_angle[d])),
\* where |E_d| |E_i| cos(..) and |E_d| |E_i| sin(..) are the real and the
\* imaginary part of E_i * conj(E_d).
KEntry(Y_red_id, EE) ==
    QSub(QMul(Y_red_id.im, EE.re), QMul(Y_red_id.re, EE.im))

\* K[np.isnan(K)] = 0
NanToZero(x) == IF QIsNaN(x) THEN QZero ELSE x

\* K = K[:, dist_bus]; K[dist_bus] = 0
KColumn(Y_red, E, dist_bus) ==
    [i \in 1..Len(E) |->
        IF i = dist_bus + 1 THEN QZero
        ELSE NanToZero(KEntry(Y_red[i][dist_bus + 1], CMul(E[i], CConj(E[dist_bus + 1]))))]

RECURSIVE SumTo(_, _)
\* np.sum of the first k entries
SumTo(K, k) == IF k = 0 THEN QZero ELSE QAdd(SumTo(K, k - 1), K[k])

\* K / total, entry by entry (numpy division: nan or inf for a zero total).
DividedBy(K, total) == [i \in 1..Len(K) |-> NpDiv(K[i], total)]

\* ratios = K / np.sum(K)
Normalised(K) == DividedBy(K, SumTo(K, Len(K)))

AllSteps ==
    << "obtain_generator_voltage_and_impedance", "obtain_generator_power",
       "calculate_generators_internal_voltage_and_angle", "K" >>

Outcome(ratio_vector, exc, n) == [ratios |-> ratio_vector, raised |-> exc, steps |-> SubSeq(AllSteps, 1, n)]

\* Lines 26-45: the lookup of the outaged generator, then K and the ratios.
RatiosFrom(Y_red, order, machines, gen_out_name, E) ==
    IF dist_bus_name(machines, gen_out_name) = NoneBus THEN Outcome(<<>>, "ValueError", 3)
    ELSE IF dist_bus_name(machines, gen_out_name) \notin Range(order)
    THEN Outcome(<<>>, "ValueError", 3)
    ELSE Outcome(Normalised(KColumn(Y_red, E, IndexOf(order, dist_bus_name(machines, gen_out_name)))),
                 "none", 4)

\* Lines 17-19: the three helpers, in the order of the calls.
RatiosAfter(Y_red, order, net, gen_out_name, VZ, S) ==
    IF VZ.raised # "none" THEN Outcome(<<>>, VZ.raised, 1)
    ELSE IF S.raised # "none" THEN Outcome(<<>>, S.raised, 2)
    ELSE RatiosFrom(Y_red, order, net.synchronous_machines, gen_out_name,
                    calculate_generators_internal_voltage_and_angle(
                        VZ.value.V_gens, VZ.value.Z_gens, S.value))

\* [ratios, raised, steps]
calculate_power_distribution_ratios(Y_red, order, net, gen_out_name) ==
    RatiosAfter(Y_red, order, net, gen_out_name,
                obtain_generator_voltage_and_impedance(net, order, net.load_flow_results),
                obtain_generator_power(net, order))

(***************************************************************************)
(* SpecReduce: a network of generators and lines is filled, its Y-bus is   *)
(* built and reduced, and the ratios are computed for an outage.           *)
(***************************************************************************)
\* The bounds on the generators and on the lines of a network.
MaxGenerators == 2
MaxLines == 2

Bus(name) == [loc_name |-> name, outserv |-> 0, iUsage |-> 0, IsEnergized |-> 1]

\* The bus lists, each with the buses whose load-flow attributes cannot be read.
ReduceInputs ==
    { [buses |-> << Bus("a") >>, unread |-> {}],
      [buses |-> << Bus("a"), Bus("b") >>, unread |-> {}],
      [buses |-> << Bus("b"), Bus("a") >>, unread |-> {"a"}],
      [buses |-> << Bus("a"), Bus("b"), Bus("c") >>, unread |-> {}] }

\* The lines of these networks.
ReduceLineInputs ==
    { LineArgs("a", "b", QZero, QInt(10), QZero, QZero, 1, BaseMVA),
      LineArgs("b", "c", QZero, QInt(20), QZero, QZero, 1, BaseMVA),
      LineArgs("a", "c", QInt(5), QInt(10), QZero, QZero, 1, BaseMVA) }

ReduceLineObjects == [p \in ReduceLineInputs |-> Line(p)]

\* A name no generator carries.
UnknownGenerator == "G9"

RECURSIVE read_load_flow_results(_, _, _)
\* Network.read_load_flow_results over the first k buses: voltage 1 p.u. at 0
\* degrees for every bus whose attributes can be read.
read_load_flow_results(busbarsPF, unread, k) ==
    IF k = 0 THEN <<>>
    ELSE IF busbarsPF[k].loc_name \in unread
    THEN read_load_flow_results(busbarsPF, unread, k - 1)
    ELSE DictSet(read_load_flow_results(busbarsPF, unread, k - 1), busbarsPF[k].loc_name,
                 [name |-> busbarsPF[k].loc_name, voltage |-> QOne, angle |-> QZero])

\* The network is still being filled.
Placing == err = "none" /\ call.name \notin PipelineCalls

PlaceSynchronousGenerator ==
    \E p \in MachineInputs : \E x \in {SynchronousGeneratorObjects[p]} :
        /\ Placing
        /\ Len(synchronous_machines) < MaxGenerators
        /\ synchronous_machines' = Appended(synchronous_machines, x)
        /\ err' = x.raised
        /\ call' = [name |-> "SynchronousGenerator", arg |-> p]
        /\ UNCHANGED <<pfVars, topoVars, log, lines, switchs, two_winding_transformers,
                       three_winding_transformers, loads, common_impedances, external_grids,
                       voltage_sources, shunts, network_base_mva, Y_bus, reduceVars>>

PlaceLine ==
    \E p \in ReduceLineInputs : \E x \in {ReduceLineObjects[p]} :
        /\ Placing
        /\ Len(lines) < MaxLines
        /\ lines' = Appended(lines, x)
        /\ err' = x.raised
        /\ call' = [name |-> "Line", arg |-> p]
        /\ UNCHANGED <<pfVars, topoVars, log, synchronous_machines, switchs, two_winding_transformers,
                       three_winding_transformers, loads, common_impedances, external_grids,
                       voltage_sources, shunts, network_base_mva, Y_bus, reduceVars>>

ReduceMatrix ==
    /\ err = "none"
    /\ call.name = "build_admittance_matrix"
    /\ \E reduced \in {reduce_matrix(Y_bus, Network)} :
        /\ call' = [name |-> "reduce_matrix", arg |-> <<>>]
        /\ err' = reduced.raised
        /\ Y_reduced' = IF reduced.raised = "none" THEN reduced.Y ELSE NoMatrix
        /\ generator_bus_names_order' = reduced.names
        /\ UNCHANGED <<pfVars, topoVars, log, elemVars, Y_bus, load_flow_results, ratios, steps>>

CalculatePowerDistributionRatios ==
    /\ err = "none"
    /\ call.name = "reduce_matrix"
    /\ \E gen_out_name \in {synchronous_machines[g].name : g \in 1..Len(synchronous_machines)}
                           \cup {UnknownGenerator} :
       \E result \in {calculate_power_distribution_ratios(
                          Y_reduced, generator_bus_names_order, Network, gen_out_name)} :
        /\ call' = [name |-> "calculate_power_distribution_ratios", arg |-> gen_out_name]
        /\ err' = result.raised
        /\ ratios' = result.ratios
        /\ steps' = result.steps
        /\ UNCHANGED <<pfVars, topoVars, log, elemVars, Y_bus, load_flow_results, Y_reduced,
                       generator_bus_names_order>>

\* A network whose buses and load-flow results have been read, without elements.
InitReduce ==
    \E input \in ReduceInputs :
        /\ PF_busbars = FilterBusbars(input.buses)
        /\ busbar_name_to_index = NameToIndex(FilterBusbars(input.buses), Len(FilterBusbars(input.buses)))
        /\ busbars = convert_busbars(FilterBusbars(input.buses))
        /\ log = <<>>
        /\ err = "none"
        /\ call = [name |-> "read_busbars", arg |-> input.buses]
        /\ network_base_mva = BaseMVA
        /\ load_flow_results = read_load_flow_results(FilterBusbars(input.buses), input.unread,
                                                      Len(FilterBusbars(input.buses)))
        /\ NoElements

NextReduce ==
    \/ PlaceSynchronousGenerator
    \/ PlaceLine
    \/ BuildAdmittanceMatrix
    \/ ReduceMatrix
    \/ CalculatePowerDistributionRatios

SpecReduce == InitReduce /\ [][NextReduce]_vars

(***************************************************************************)
(* Converter (utils/Converter.py): from PowerFactory objects to elements.  *)
(* A PowerFactory object is the record of the attributes and methods the   *)
(* converters read; an attribute that is not set is PyNone.  The elements  *)
(* are built on the constructors' default base, base_mva = 1.0.            *)
(***************************************************************************)
\* The bound on the number of PowerFactory objects handed to the converters.
MaxPFObjects == 2

\* A terminal (ElmTerm) and a cubicle (StaCubic) of it.
PFTerminal(name) == [loc_name |-> name, uknom |-> QInt(10), cpSubstat |-> PyNone]
PFCubicle(name, IsConnected) ==
    [cBusBar |-> PFTerminal(name), GetParent |-> PFTerminal(name),
     IsConnected |-> IsConnected]

\* What one pass of a converter's loop does: the element it appends, the
\* warnings it prints, the exception that leaves the function.
Continue == [appended |-> <<>>, printed |-> <<>>, raised |-> "none"]
Warning(text, loc_name) ==
    [appended |-> <<>>, printed |-> <<[level |-> "warning", text |-> text, name |-> loc_name]>>,
     raised |-> "none"]
Raise(exc) == [appended |-> <<>>, printed |-> <<>>, raised |-> exc]
\* x = Class(...); xs.append(x): an exception of __init__ leaves the converter.
Construct(x) == IF x.raised = "none" THEN [Continue EXCEPT !.appended = <<x>>] ELSE Raise(x.raised)

\* The loop: nothing happens after a pass has raised.
ConvertNext(before, pass) ==
    IF before.raised # "none" THEN before
    ELSE [appended |-> before.appended \o pass.appended,
          printed |-> before.printed \o pass.printed, raised |-> pass.raised]

\* f"{substation_name}_{busbar_name}"
generate_unique_name(busbar_name, substation_name) == substation_name \o "_" \o busbar_name

\* ---- convert_lines ----
convert_line(line, name_to_index) ==
    IF line.typ_id = PyNone THEN Continue
    ELSE IF Len(line.GetConnectedElements) # 2
    THEN Warning("Line has none more than 2 connection", line.loc_name)
    ELSE IF line.bus1.IsConnected = 0 \/ line.bus2.IsConnected = 0
    THEN Warning("Line has less than 2 active conections", line.loc_name)
    ELSE IF \/ ~DictHas(name_to_index, line.bus1.cBusBar.loc_name)
            \/ ~DictHas(name_to_index, line.bus2.cBusBar.loc_name)
    THEN Warning("Busbar not in busbar_name_to_index", line.loc_name)
    ELSE Construct(Line([name |-> line.loc_name,
                         connected_busbar_from |-> line.bus1.cBusBar.loc_name,
                         connected_busbar_to |-> line.bus2.cBusBar.loc_name,
                         rated_voltage |-> line.typ_id.uline,
                         resistance |-> line.R1, reactance |-> line.X1,
                         susceptance_effective |-> line.B1, susceptance_ground |-> line.B0,
                         parallel |-> line.nlnum, base_mva |-> QOne]))

RECURSIVE convert_lines_upto(_, _, _)
convert_lines_upto(pf_lines, name_to_index, k) ==
    IF k = 0 THEN Continue
    ELSE ConvertNext(convert_lines_upto(pf_lines, name_to_index, k - 1),
                     convert_line(pf_lines[k], name_to_index))

convert_lines(pf_lines, name_to_index) ==
    convert_lines_upto(pf_lines, name_to_index, Len(pf_lines))

\* ---- convert_synchronous_machines ----
\* machine_type is read first and used last: machine_type.GetAttribute(...) on
\* None is an AttributeError.
convert_synchronous_machine(machine) ==
    IF Len(machine.GetConnectedElements) # 1
    THEN Warning("SynMachine has none more than one connection", machine.loc_name)
    ELSE IF machine.typ_id = PyNone THEN Raise("AttributeError")
    ELSE Construct(SynchronousGenerator(
             [data_object |-> machine, name |-> machine.loc_name,
              connected_busbar |-> machine.GetConnectedElements[1].loc_name,
              S_rat |-> machine.typ_id.sgn, U_rat |-> machine.typ_id.ugn,
              r_a |-> machine.typ_id.rstr, x_as |-> machine.typ_id.xl,
              x_d1 |-> machine.typ_id.xds, base_mva |-> QOne]))

RECURSIVE convert_synchronous_machines_upto(_, _)
convert_synchronous_machines_upto(machines, k) ==
    IF k = 0 THEN Continue
    ELSE ConvertNext(convert_synchronous_machines_upto(machines, k - 1),
                     convert_synchronous_machine(machines[k]))

convert_synchronous_machines(machines) ==
    convert_synchronous_machines_upto(machines, Len(machines))

\* ---- convert_switches ----
\* try: on_resistance = typ_id.GetAttribute("R_on"); except: on_resistance = 1e-6
Switch_on_resistance(switch) ==
    IF switch.typ_id = PyNone THEN Micro ELSE switch.typ_id.R_on

\* A pass that does not look at IsClosed().
convert_switch_IgnoringIsClosed(switch) ==
    IF Len(switch.GetConnectedElements) # 2
    THEN Warning("Switch has none more than 2 connection", switch.loc_name)
    ELSE IF switch.bus1.IsConnected = 0 \/ switch.bus2.IsConnected = 0
    THEN Warning("Switch has less than 2 active conections", switch.loc_name)
    ELSE Construct(Switch(
             [name |-> generate_unique_name(switch.loc_name, "None"),
              connected_busbar_from |-> switch.bus1.cBusBar.loc_name,
              connected_busbar_to |-> switch.bus2.cBusBar.loc_name,
              on_resistance |-> Switch_on_resistance(switch),
              voltage_level |-> switch.bus1.cBusBar.uknom, base_mva |-> QOne]))

convert_switch(switch) ==
    IF switch.IsClosed = 0 THEN Continue
    ELSE IF Len(switch.GetConnectedElements) # 2
    THEN Warning("Switch has none more than 2 connection", switch.loc_name)
    ELSE IF switch.bus1.IsConnected = 0 \/ switch.bus2.IsConnected = 0
    THEN Warning("Switch has less than 2 active conections", switch.loc_name)
    ELSE Construct(Switch(
             [name |-> generate_unique_name(switch.loc_name,
                           IF switch.cpSubstat = PyNone THEN "None"
                           ELSE switch.cpSubstat.loc_name),
              connected_busbar_from |-> switch.bus1.cBusBar.loc_name,
              connected_busbar_to |-> switch.bus2.cBusBar.loc_name,
              on_resistance |-> Switch_on_resistance(switch),
              voltage_level |-> switch.bus1.cBusBar.uknom, base_mva |-> QOne]))

RECURSIVE convert_switches_upto(_, _)
convert_switches_upto(switches, k) ==
    IF k = 0 THEN Continue
    ELSE ConvertNext(convert_switches_upto(switches, k - 1), convert_switch(switches[k]))

convert_switches(switches) == convert_switches_upto(switches, Len(switches))

\* ---- convert_shunt_elements ----
\* No test of the connections: connected_terminal.GetParent() on None is an
\* AttributeError.
convert_shunt_element(shunt_element) ==
    IF shunt_element.outserv = 1 THEN Continue
    ELSE IF shunt_element.bus1 = PyNone THEN Raise("AttributeError")
    ELSE Construct(ShuntElement(
             [data_object |-> shunt_element, name |-> shunt_element.loc_name,
              bus_to |-> shunt_element.bus1.GetParent.loc_name,
              U_rat |-> shunt_element.ushnm, shunt_type |-> shunt_element.shtype,
              base_mva |-> QOne]))

RECURSIVE convert_shunt_elements_upto(_, _)
convert_shunt_elements_upto(pf_shunt_elements, k) ==
    IF k = 0 THEN Continue
    ELSE ConvertNext(convert_shunt_elements_upto(pf_shunt_elements, k - 1),
                     convert_shunt_element(pf_shunt_elements[k]))

convert_shunt_elements(pf_shunt_elements) ==
    convert_shunt_elements_upto(pf_shunt_elements, Len(pf_shunt_elements))

(***************************************************************************)
(* SpecConvert: on a network of two buses, the converters are called on    *)
(* lists of PowerFactory objects (xs = Converter.convert_...(objects)),    *)
(* and build_admittance_matrix is then run on what they returned.          *)
(***************************************************************************)
PFLine(loc_name, typ_id, bus1, bus2, connections) ==
    [loc_name |-> loc_name, typ_id |-> typ_id, bus1 |-> bus1, bus2 |-> bus2,
     GetConnectedElements |-> connections, dline |-> QOne,
     R1 |-> QZero, X1 |-> QInt(10), B1 |-> QZero, B0 |-> QZero, nlnum |-> 1]

TypLne == [loc_name |-> "TypLne", uline |-> QInt(10)]

PFLineInputs ==
    { PFLine("L1", TypLne, PFCubicle("a", 1), PFCubicle("b", 1),
             <<PFTerminal("a"), PFTerminal("b")>>),
      PFLine("L2", PyNone, PFCubicle("a", 1), PFCubicle("b", 1),
             <<PFTerminal("a"), PFTerminal("b")>>),
      PFLine("L3", TypLne, PFCubicle("a", 1), PFCubicle("b", 1), <<PFTerminal("a")>>),
      PFLine("L4", TypLne, PFCubicle("a", 1), PFCubicle("z", 1),
             <<PFTerminal("a"), PFTerminal("z")>>),
      PFLine("L5", TypLne, PFCubicle("a", 1), PFCubicle("b", 0),
             <<PFTerminal("a"), PFTerminal("b")>>) }

PFMachine(loc_name, typ_id, connections) ==
    [loc_name |-> loc_name, typ_id |-> typ_id, GetConnectedElements |-> connections,
     cpZone |-> PyNone]

TypSym ==
    [loc_name |-> "TypSym", sgn |-> QInt(100), ugn |-> QInt(10), rstr |-> QZero,
     xl |-> <<1, 10>>, xds |-> <<1, 10>>]

PFMachineInputs ==
    { PFMachine("G1", TypSym, <<PFTerminal("a")>>),
      PFMachine("G2", TypSym, <<>>),
      PFMachine("G3", PyNone, <<PFTerminal("b")>>),
      PFMachine("G4", TypSym, <<PFTerminal("b")>>) }

PFSwitch(loc_name, IsClosed, bus1, bus2, connections, typ_id) ==
    [loc_name |-> loc_name, IsClosed |-> IsClosed, bus1 |-> bus1, bus2 |-> bus2,
     GetConnectedElements |-> connections, typ_id |-> typ_id, cpSubstat |-> PyNone]

TypSwitch == [R_on |-> <<1, 100>>]

PFSwitchInputs ==
    { PFSwitch("S1", 1, PFCubicle("a", 1), PFCubicle("b", 1),
               <<PFTerminal("a"), PFTerminal("b")>>, TypSwitch),
      PFSwitch("S2", 0, PFCubicle("a", 1), PFCubicle("b", 1),
               <<PFTerminal("a"), PFTerminal("b")>>, TypSwitch),
      PFSwitch("S3", 1, PFCubicle("a", 1), PFCubicle("b", 1), <<PFTerminal("a")>>, TypSwitch),
      PFSwitch("S4", 1, PFCubicle("a", 1), PFCubicle("b", 0),
               <<PFTerminal("a"), PFTerminal("b")>>, TypSwitch),
      PFSwitch("S5", 1, PFCubicle("b", 1), PFCubicle("a", 1),
               <<PFTerminal("b"), PFTerminal("a")>>, PyNone),
      PFSwitch("S6", 0, PyNone, PyNone, <<>>, PyNone) }

PFShunt(loc_name, outserv, bus1, shtype) ==
    [loc_name |-> loc_name, outserv |-> outserv, bus1 |-> bus1, shtype |-> shtype,
     ushnm |-> QInt(10), bcap |-> QInt(1000000), xrea |-> QInt(2), rrea |-> QZero,
     gparac |-> QInt(1000000), fres |-> <<7, 44>>, c1 |-> QInt(1000000),
     c2 |-> QInt(1000000), rpara |-> QOne]

PFShuntInputs ==
    { PFShunt("H1", 0, PFCubicle("a", 1), ShuntType_C),
      PFShunt("H2", 1, PFCubicle("a", 1), ShuntType_C),
      PFShunt("H3", 0, PyNone, ShuntType_C),
      PFShunt("H4", 0, PFCubicle("b", 1), ShuntType_R_L) }

\* The number of PowerFactory objects handed over so far.
PFObjectCount ==
    Len(classified_elements["ElmLne"]) + Len(classified_elements["ElmSym"])
    + Len(classified_elements["ElmCoup"]) + Len(classified_elements["ElmShnt"])

\* Nothing has raised, the matrix has not been built, and the class has not
\* been converted yet.
Converting(class, objects) ==
    /\ err = "none" /\ call.name \notin PipelineCalls
    /\ classified_elements[class] = <<>> /\ objects # <<>>
    /\ PFObjectCount + Len(objects) <= MaxPFObjects

\* network.lines = Converter.convert_lines(pf_lines, network.busbar_name_to_index)
ConvertLines ==
    \E pf_lines \in SeqUpTo(PFLineInputs, MaxPFObjects) :
        /\ Converting("ElmLne", pf_lines)
        /\ \E returned \in {convert_lines(pf_lines, busbar_name_to_index)} :
               /\ lines' = IF returned.raised = "none" THEN returned.appended ELSE lines
               /\ log' = returned.printed
               /\ err' = returned.raised
        /\ classified_elements' = [classified_elements EXCEPT !["ElmLne"] = pf_lines]
        /\ call' = [name |-> "convert_lines", arg |-> pf_lines]
        /\ UNCHANGED <<pfVars, busbar_name_to_index, PF_busbars, busbars, synchronous_machines,
                       switchs, two_winding_transformers, three_winding_transformers, loads,
                       common_impedances, external_grids, voltage_sources, shunts,
                       network_base_mva, Y_bus, reduceVars>>

\* network.synchronous_machines = Converter.convert_synchronous_machines(machines)
ConvertSynchronousMachines ==
    \E machines \in SeqUpTo(PFMachineInputs, MaxPFObjects) :
        /\ Converting("ElmSym", machines)
        /\ \E returned \in {convert_synchronous_machines(machines)} :
               /\ synchronous_machines' = IF returned.raised = "none" THEN returned.appended
                                          ELSE synchronous_machines
               /\ log' = returned.printed
               /\ err' = returned.raised
        /\ classified_elements' = [classified_elements EXCEPT !["ElmSym"] = machines]
        /\ call' = [name |-> "convert_synchronous_machines", arg |-> machines]
        /\ UNCHANGED <<pfVars, busbar_name_to_index, PF_busbars, busbars, lines,
                       switchs, two_winding_transformers, three_winding_transformers, loads,
                       common_impedances, external_grids, voltage_sources, shunts,
                       network_base_mva, Y_bus, reduceVars>>

\* network.switchs = Converter.convert_switches(switches)
ConvertSwitches ==
    \E switches \in SeqUpTo(PFSwitchInputs, MaxPFObjects) :
        /\ Converting("ElmCoup", switches)
        /\ \E returned \in {convert_switches(switches)} :
               /\ switchs' = IF returned.raised = "none" THEN returned.appended ELSE switchs
               /\ log' = returned.printed
               /\ err' = returned.raised
        /\ classified_elements' = [classified_elements EXCEPT !["ElmCoup"] = switches]
        /\ call' = [name |-> "convert_switches", arg |-> switches]
        /\ UNCHANGED <<pfVars, busbar_name_to_index, PF_busbars, busbars, lines,
                       synchronous_machines, two_winding_transformers,
                       three_winding_transformers, loads, common_impedances,
                       external_grids, voltage_sources, shunts,
                       network_base_mva, Y_bus, reduceVars>>

\* network.shunts = Converter.convert_shunt_elements(pf_shunt_elements)
ConvertShuntElements ==
    \E pf_shunt_elements \in SeqUpTo(PFShuntInputs, MaxPFObjects) :
        /\ Converting("ElmShnt", pf_shunt_elements)
        /\ \E returned \in {convert_shunt_elements(pf_shunt_elements)} :
               /\ shunts' = IF returned.raised = "none" THEN returned.appended ELSE shunts
               /\ log' = returned.printed
               /\ err' = returned.raised
        /\ classified_elements' = [classified_elements EXCEPT !["ElmShnt"] = pf_shunt_elements]
        /\ call' = [name |-> "convert_shunt_elements", arg |-> pf_shunt_elements]
        /\ UNCHANGED <<pfVars, busbar_name_to_index, PF_busbars, busbars, lines,
                       synchronous_machines, switchs, two_winding_transformers,
                       three_winding_transformers, loads, common_impedances,
                       external_grids, voltage_sources, network_base_mva, Y_bus, reduceVars>>

ConvertBusbars ==
    << [loc_name |-> "a", outserv |-> 0, iUsage |-> 0, IsEnergized |-> 1],
       [loc_name |-> "b", outserv |-> 0, iUsage |-> 0, IsEnergized |-> 1] >>

InitConvert ==
    /\ PF_busbars = FilterBusbars(ConvertBusbars)
    /\ busbar_name_to_index = NameToIndex(FilterBusbars(ConvertBusbars),
                                          Len(FilterBusbars(ConvertBusbars)))
    /\ busbars = convert_busbars(FilterBusbars(ConvertBusbars))
    /\ log = <<>>
    /\ err = "none"
    /\ call = [name |-> "read_busbars", arg |-> ConvertBusbars]
    /\ network_base_mva = BaseMVA
    /\ load_flow_results = <<>>
    /\ NoElements

\* The parameters of the converters, as their def lines declare them.
ConverterParameters ==
    [convert_lines |-> {"pf_lines", "busbar_name_to_index"},
     convert_loads |-> {"pf_loads", "load_flow_results"},
     convert_switches |-> {"switches"},
     convert_two_winding_transformers |-> {"pf_transformers"},
     convert_three_winding_transformers |-> {"pf_transformers"},
     convert_synchronous_machines |-> {"machines"},
     convert_common_impedances |-> {"pf_common_impedances"},
     convert_external_grids |-> {"pf_external_grids"},
     convert_voltage_source_AC |-> {"pf_voltage_sources_AC"},
     convert_shunt_elements |-> {"pf_shunt_elements"}]

\* self.<attribute> = Converter.<function>(..., base_mva=self.base_mva): a
\* keyword that is no parameter of the function is a TypeError, raised before
\* the function runs; an exception ends obtain_elements_data.
Obtained(before, function, attribute, returned) ==
    IF before.raised # "none" THEN before
    ELSE IF "base_mva" \notin ConverterParameters[function]
         THEN [before EXCEPT !.raised = "TypeError"]
    ELSE IF returned.raised # "none" THEN [before EXCEPT !.raised = returned.raised]
    ELSE [before EXCEPT ![attribute] = returned.appended]

\* The ten assignments in their order.  The classes whose converter is not
\* modelled hold no object here, and such a converter returns [].
obtain_elements_data ==
    Obtained(Obtained(Obtained(Obtained(Obtained(Obtained(Obtained(Obtained(Obtained(Obtained(
        [raised |-> "none", lines |-> lines, loads |-> loads, switchs |-> switchs,
         two_winding_transformers |-> two_winding_transformers,
         three_winding_transformers |-> three_winding_transformers,
         synchronous_machines |-> synchronous_machines,
         common_impedances |-> common_impedances, external_grids |-> external_grids,
         voltage_sources |-> voltage_sources, shunts |-> shunts],
        "convert_lines", "lines",
            convert_lines(classified_elements["ElmLne"], busbar_name_to_index)),
        "convert_loads", "loads", Continue),
        "convert_switches", "switchs", convert_switches(classified_elements["ElmCoup"])),
        "convert_two_winding_transformers", "two_winding_transformers", Continue),
        "convert_three_winding_transformers", "three_winding_transformers", Continue),
        "convert_synchronous_machines", "synchronous_machines",
            convert_synchronous_machines(classified_elements["ElmSym"])),
        "convert_common_impedances", "common_impedances", Continue),
        "convert_external_grids", "external_grids", Continue),
        "convert_voltage_source_AC", "voltage_sources", Continue),
        "convert_shunt_elements", "shunts",
            convert_shunt_elements(classified_elements["ElmShnt"]))

\* Network.obtain_elements_data(), the last statement of Network.__init__(app).
ObtainElementsData ==
    /\ err = "none" /\ call.name \notin PipelineCalls
    /\ \E done \in {obtain_elements_data} :
           /\ lines' = done.lines /\ loads' = done.loads /\ switchs' = done.switchs
           /\ two_winding_transformers' = done.two_winding_transformers
           /\ three_winding_transformers' = done.three_winding_transformers
           /\ synchronous_machines' = done.synchronous_machines
           /\ common_impedances' = done.common_impedances
           /\ external_grids' = done.external_grids
           /\ voltage_sources' = done.voltage_sources /\ shunts' = done.shunts
           /\ err' = done.raised
    /\ log' = <<>>
    /\ call' = [name |-> "obtain_elements_data", arg |-> network_base_mva]
    /\ UNCHANGED <<pfVars, topoVars, network_base_mva, Y_bus, reduceVars>>

NextConvert ==
    \/ ConvertLines
    \/ ConvertSynchronousMachines
    \/ ConvertSwitches
    \/ ConvertShuntElements
    \/ ObtainElementsData
    \/ BuildAdmittanceMatrix

SpecConvert == InitConvert /\ [][NextConvert]_vars

(***************************************************************************)
(* PowerFactoryApp (pf_python_api/PowerFactoryApp.py).  An instance is its *)
(* identity and its __dict__; SpecApp is a caller constructing it and      *)
(* calling its methods, PowerFactory answering as it may.                  *)
(***************************************************************************)
\* The bound on the number of calls the caller makes.
MaxCalls == 3

\* What PF.GetApplicationExt() returns: the application, or None when it
\* cannot be started.
Application == [application |-> TRUE]
GetApplicationExt == {Application, PyNone}

\* A __new__ that creates an instance on every call.
PowerFactoryApp_new_Always(instance) ==
    [id |-> (IF instance = PyNone THEN 0 ELSE instance.id) + 1, dict |-> <<>>]

\* __new__: cls._instance is created on the first call only.
PowerFactoryApp_new(instance) ==
    IF instance = PyNone THEN [id |-> 1, dict |-> <<>>] ELSE instance

\* hasattr(self, 'app') and self.app
HasApp(self) == DictHas(self.dict, "app")
AppOf(self) == IF HasApp(self) THEN DictGet(self.dict, "app") ELSE PyNone

\* __init__: the handle is asked for when self has no attribute `app`; the
\* attribute is set before the test for None.
PowerFactoryApp_init(self, handle) ==
    IF HasApp(self) THEN [self |-> self, raised |-> "none", GetApplicationExt |-> FALSE]
    ELSE [self |-> [self EXCEPT !.dict = DictSet(@, "app", handle)],
          raised |-> IF handle = PyNone THEN "RuntimeError" ELSE "none",
          GetApplicationExt |-> TRUE]

\* One entry of pf_calls.
Called(name, arg, done) ==
    [name |-> name, arg |-> arg, raised |-> done.raised, self |-> done.self,
     GetApplicationExt |-> done.GetApplicationExt]

\* A method that does nothing but test self.app first.
Guarded(self, raised) ==
    [self |-> self, GetApplicationExt |-> FALSE,
     raised |-> IF AppOf(self) = PyNone THEN "RuntimeError" ELSE raised]

\* Some construction has returned: the caller holds the instance.
Held ==
    /\ Len(pf_calls) < MaxCalls
    /\ \E k \in 1..Len(pf_calls) :
           pf_calls[k].name = "PowerFactoryApp" /\ pf_calls[k].raised = "none"

\* PowerFactoryApp()
ConstructPowerFactoryApp ==
    \E handle \in GetApplicationExt :
    \E done \in {PowerFactoryApp_init(PowerFactoryApp_new(PowerFactoryApp_instance), handle)} :
        /\ Len(pf_calls) < MaxCalls
        /\ PowerFactoryApp_instance' = done.self
        /\ pf_calls' = Append(pf_calls, Called("PowerFactoryApp", <<>>, done))
        /\ UNCHANGED <<topoVars, log, err, call, elemVars, Y_bus, reduceVars,
                       simulation_events, rms, busbars_before>>

\* app.ActivateProject returns 0 on success and 1 otherwise.
ActivateProject ==
    \E project_name \in {"P1", "P2"} : \E project_success \in {0, 1} :
        /\ Held
        /\ pf_calls' = Append(pf_calls,
               Called("activate_project", project_name,
                      Guarded(PowerFactoryApp_instance,
                              IF project_success = 1 THEN "Exception" ELSE "none")))
        /\ UNCHANGED <<topoVars, log, err, call, elemVars, Y_bus, reduceVars,
                       PowerFactoryApp_instance, simulation_events, rms, busbars_before>>

ActivateStudyCase ==
    \E study_case_name \in {"S1", "S2"} :
        /\ Held
        /\ pf_calls' = Append(pf_calls,
               Called("activate_study_case", study_case_name,
                      Guarded(PowerFactoryApp_instance, "none")))
        /\ UNCHANGED <<topoVars, log, err, call, elemVars, Y_bus, reduceVars,
                       PowerFactoryApp_instance, simulation_events, rms, busbars_before>>

GetCalcRelevantObjects ==
    \E object_type \in {"*.ElmTerm", "*.ElmSym"} :
        /\ Held
        /\ pf_calls' = Append(pf_calls,
               Called("get_calc_relevant_objects", object_type,
                      Guarded(PowerFactoryApp_instance, "none")))
        /\ UNCHANGED <<topoVars, log, err, call, elemVars, Y_bus, reduceVars,
                       PowerFactoryApp_instance, simulation_events, rms, busbars_before>>

\* show_gui: `if self.app: self.app.Show()`, no exception without a handle.
ShowGui ==
    /\ Held
    /\ pf_calls' = Append(pf_calls,
           Called("show_gui", <<>>,
                  [self |-> PowerFactoryApp_instance, GetApplicationExt |-> FALSE,
                   raised |-> "none"]))
    /\ UNCHANGED <<topoVars, log, err, call, elemVars, Y_bus, reduceVars,
                   PowerFactoryApp_instance, simulation_events, rms, busbars_before>>

NextApp ==
    \/ ConstructPowerFactoryApp
    \/ ActivateProject
    \/ ActivateStudyCase
    \/ GetCalcRelevantObjects
    \/ ShowGui

SpecApp == InitBusbars /\ [][NextApp]_vars

(***************************************************************************)
(* Network.read_connected_elements (core/Network.py), and read_busbars     *)
(* called again on a Network that has been read before.                   *)
(***************************************************************************)
\* The classes read, in the order of the dict elements_to_read.
elements_to_read ==
    <<"ElmLne", "ElmTr2", "ElmLod", "ElmSym", "ElmCoup", "ElmTr3", "ElmZpu", "ElmVac",
      "ElmShnt", "ElmXnet", "ElmIac", "ElmSind", "ElmScap", "ElmBranch", "ElmSssc",
      "ElmSubmodcon", "ElmVacbin", "ElmVscmono", "ElmGenstat", "ElmSvs">>

\* A PowerFactory element as read_connected_elements reads it; reading an
\* attribute of a deleted object raises.
PFElement(loc_name, outserv, energized, deleted) ==
    [loc_name |-> loc_name, outserv |-> outserv, IsEnergized |-> energized,
     deleted |-> deleted]

\* What app.GetCalcRelevantObjects answers for one class: it raises, or it
\* returns a list (None and the empty list are both false in `if pf_elements`).
Answer(objects) == [raised |-> FALSE, objects |-> objects]
AnswerRaises == [raised |-> TRUE, objects |-> <<>>]

PFAnswers ==
    { AnswerRaises,
      Answer(<<>>),
      Answer(<<PFElement("e1", 0, 1, FALSE)>>),
      Answer(<<PFElement("e1", 0, 1, FALSE), PFElement("e2", 1, 1, FALSE),
               PFElement("e3", 0, 0, FALSE), PFElement("e4", 0, 1, FALSE)>>),
      Answer(<<PFElement("e2", 1, 0, FALSE)>>),
      Answer(<<PFElement("e1", 0, 1, FALSE), PFElement("e5", 0, 1, TRUE)>>) }

\* The filter loop without its test of IsEnergized().
RECURSIVE KeepElements_NoEnergizedTest(_)
KeepElements_NoEnergizedTest(pf_elements) ==
    IF pf_elements = <<>> THEN <<>>
    ELSE IF Head(pf_elements).outserv = 1
         THEN KeepElements_NoEnergizedTest(Tail(pf_elements))
         ELSE <<Head(pf_elements)>> \o KeepElements_NoEnergizedTest(Tail(pf_elements))

\* The filter loop: filtered_elements of a list none of whose objects raises.
RECURSIVE KeepElements(_)
KeepElements(pf_elements) ==
    IF pf_elements = <<>> THEN <<>>
    ELSE IF Head(pf_elements).outserv = 1 \/ Head(pf_elements).IsEnergized # 1
         THEN KeepElements(Tail(pf_elements))
         ELSE <<Head(pf_elements)>> \o KeepElements(Tail(pf_elements))

\* The inner try raises: the call itself, or an object inside the loop.
ReadFails(answer) ==
    answer.raised \/ \E i \in 1..Len(answer.objects) : answer.objects[i].deleted

\* self.classified_elements[element_class] = v
StoreClass(d, element_class, v) ==
    [c \in DOMAIN d \cup {element_class} |-> IF c = element_class THEN v ELSE d[c]]

\* One pass of the loop over elements_to_read.
ReadClass(d, element_class, answer) ==
    IF ReadFails(answer) THEN StoreClass(d, element_class, <<>>)
    ELSE IF answer.objects = <<>> THEN d
    ELSE StoreClass(d, element_class, KeepElements(answer.objects))

\* classified_elements after the first k passes.
RECURSIVE ReadClasses(_, _)
ReadClasses(answers, k) ==
    IF k = 0 THEN init_classified_elements
    ELSE ReadClass(ReadClasses(answers, k - 1), elements_to_read[k],
                   answers[elements_to_read[k]])

\* total_elements after the first k passes.
RECURSIVE TotalRead(_, _)
TotalRead(answers, k) ==
    IF k = 0 THEN 0
    ELSE TotalRead(answers, k - 1)
         + (IF ReadFails(answers[elements_to_read[k]]) THEN 0
            ELSE Len(KeepElements(answers[elements_to_read[k]].objects)))

\* The warnings: one per class that failed, one more when nothing was read.
RECURSIVE ReadWarnings(_, _)
ReadWarnings(answers, k) ==
    IF k = 0 THEN <<>>
    ELSE ReadWarnings(answers, k - 1) \o
         (IF ReadFails(answers[elements_to_read[k]])
          THEN <<[level |-> "warning", duplicate |-> elements_to_read[k]]>>
          ELSE <<>>)

\* What PowerFactory answers class by class: without an application every
\* call raises (AttributeError on None).
AnswersOf(app, lne, genstat) ==
    [c \in Range(elements_to_read) |->
        IF app = PyNone THEN AnswerRaises
        ELSE IF c = "ElmLne" THEN lne
        ELSE IF c = "ElmGenstat" THEN genstat
        ELSE Answer(<<>>)]

\* Network.read_connected_elements(app)
ReadConnectedElements ==
    \E app \in GetApplicationExt : \E lne, genstat \in PFAnswers :
    \E answers \in {AnswersOf(app, lne, genstat)} :
        /\ classified_elements' = ReadClasses(answers, Len(elements_to_read))
        /\ log' = ReadWarnings(answers, Len(elements_to_read)) \o
                  (IF TotalRead(answers, Len(elements_to_read)) = 0
                   THEN <<[level |-> "warning", duplicate |-> "No classified elements"]>>
                   ELSE <<>>)
        /\ err' = "none"
        /\ call' = [name |-> "read_connected_elements", arg |-> answers]
        /\ UNCHANGED <<pfVars, busbar_name_to_index, PF_busbars, busbars, elemVars,
                       Y_bus, reduceVars>>

\* The buses handed to read_busbars on a Network that may have been read
\* before: two that pass the filter, one that does not.
PFBusbarsAgain ==
    { [loc_name |-> "a", outserv |-> 0, iUsage |-> 0, IsEnergized |-> 1],
      [loc_name |-> "b", outserv |-> 0, iUsage |-> 1, IsEnergized |-> 1],
      [loc_name |-> "c", outserv |-> 0, iUsage |-> 1, IsEnergized |-> 0] }

ReadBusbarsAgain ==
    \E busbarsPF \in SeqUpTo(PFBusbarsAgain, MaxBusbars) :
        /\ read_busbars(busbarsPF)
        /\ busbars_before' = {busbar_name_to_index[i][1] : i \in 1..Len(busbar_name_to_index)}

NextRead == ReadConnectedElements \/ ReadBusbarsAgain

SpecRead == InitBusbars /\ [][NextRead]_vars

(***************************************************************************)
(* obtain_rms_results (examples/helpers/obtain_rms_results.py), step by    *)
(* step: rms holds its local variables and the statement it has reached,   *)
(* simulation_events the contents of the folder "Simulation Events/Fault". *)
(***************************************************************************)
PFGenerator(loc_name, outserv, energized) ==
    [loc_name |-> loc_name, outserv |-> outserv, IsEnergized |-> energized]

\* What app.GetCalcRelevantObjects("*.ElmSym", 1, 1, 1) may hold.
RmsGeneratorInputs ==
    { PFGenerator("G1", 0, 1), PFGenerator("G2", 0, 1),
      PFGenerator("G3", 1, 1), PFGenerator("G4", 0, 0) }

\* An event of the folder; `created` marks the events this run has created.
Event(id, loc_name, p_target, outserv, created) ==
    [id |-> id, loc_name |-> loc_name, p_target |-> p_target, outserv |-> outserv,
     created |-> created]

\* The folder as the procedure may find it: empty, with events in service,
\* with the switch event an earlier run has left behind.
EventFolderInputs ==
    { <<>>,
      <<Event(1, "Short circuit", "L1", 0, FALSE)>>,
      <<Event(1, "Short circuit", "L1", 0, FALSE), Event(2, "G1_izpad", "G1", 0, FALSE)>>,
      <<Event(1, "G2_izpad", "G2", 1, FALSE)>> }

\* The generators kept by the first loop.
RECURSIVE InServiceGenerators(_)
InServiceGenerators(all_generators) ==
    IF all_generators = <<>> THEN <<>>
    ELSE IF Head(all_generators).outserv = 1 \/ Head(all_generators).IsEnergized # 1
         THEN InServiceGenerators(Tail(all_generators))
         ELSE <<Head(all_generators)>> \o InServiceGenerators(Tail(all_generators))

\* A loop that leaves the events it finds as they are.
Disabled_Untouched(events) == events

\* for event in simulation_events: event.SetAttribute("outserv", 1)
Disabled(events) == [i \in 1..Len(events) |-> [events[i] EXCEPT !.outserv = 1]]

\* event.SetAttribute("outserv", 1) on the event of the given identity.
RECURSIVE SetOutOfService(_, _)
SetOutOfService(events, id) ==
    IF events = <<>> THEN <<>>
    ELSE <<IF Head(events).id = id THEN [Head(events) EXCEPT !.outserv = 1]
           ELSE Head(events)>> \o SetOutOfService(Tail(events), id)

\* previous_event.Delete() when it succeeds.
RECURSIVE Deleted(_, _)
Deleted(events, id) ==
    IF events = <<>> THEN <<>>
    ELSE IF Head(events).id = id THEN Deleted(Tail(events), id)
    ELSE <<Head(events)>> \o Deleted(Tail(events), id)

RmsAt(pc) == rms # PyNone /\ rms.pc = pc

RmsNext == IF rms.iteration < Len(rms.generators) THEN "CreateObject" ELSE "return"

\* Lines 8-41: the generators are filtered and the events found are put out
\* of service.
StartRms ==
    \E all_generators \in SeqUpTo(RmsGeneratorInputs, MaxGenerators) :
    \E found \in EventFolderInputs :
    \E generators \in {InServiceGenerators(all_generators)} :
        /\ rms = PyNone
        /\ simulation_events' = Disabled(found)
        /\ rms' = [pc |-> IF generators = <<>> THEN "return" ELSE "CreateObject",
                   generators |-> generators, iteration |-> 0, previous_event |-> 0,
                   new_event |-> 0, next_id |-> Len(found) + 1, dtgrd |-> "unset",
                   files_names |-> <<>>]
        /\ UNCHANGED <<topoVars, log, err, call, elemVars, Y_bus, reduceVars,
                       PowerFactoryApp_instance, pf_calls, busbars_before>>

\* Lines 44-55: the switch event of the next generator is created.
CreateSwitchEvent ==
    /\ RmsAt("CreateObject")
    /\ \E gen \in {rms.generators[rms.iteration + 1]} :
           simulation_events' =
               Append(simulation_events,
                      Event(rms.next_id, gen.loc_name \o "_izpad", gen.loc_name, 0, TRUE))
    /\ rms' = [rms EXCEPT !.pc = "ComInc", !.iteration = @ + 1,
                          !.new_event = rms.next_id, !.next_id = @ + 1]
    /\ UNCHANGED <<topoVars, log, err, call, elemVars, Y_bus, reduceVars,
                   PowerFactoryApp_instance, pf_calls, busbars_before>>

\* Lines 59-67: the initial conditions.
ExecuteComInc ==
    \E timeUnit \in {"s", "ms", "us"} :
        /\ RmsAt("ComInc")
        /\ rms' = [rms EXCEPT !.pc = "ComSim",
                              !.dtgrd = IF timeUnit = "s" THEN "0.001"
                                        ELSE IF timeUnit = "ms" THEN "1" ELSE @]
        /\ UNCHANGED <<topoVars, log, err, call, elemVars, Y_bus, reduceVars,
                       PowerFactoryApp_instance, pf_calls, simulation_events,
                       busbars_before>>

\* Lines 70-72: the RMS simulation.
ExecuteComSim ==
    /\ RmsAt("ComSim")
    /\ rms' = [rms EXCEPT !.pc = "Delete"]
    /\ UNCHANGED <<topoVars, log, err, call, elemVars, Y_bus, reduceVars,
                   PowerFactoryApp_instance, pf_calls, simulation_events, busbars_before>>

\* Lines 75-81: the event of the iteration before is deleted (Delete returns
\* 0 when it succeeds), the new one is put out of service.
DeletePreviousEvent ==
    \E deleted \in {0, 1} :
        /\ RmsAt("Delete")
        /\ simulation_events' =
               SetOutOfService(IF rms.previous_event # 0 /\ deleted = 0
                               THEN Deleted(simulation_events, rms.previous_event)
                               ELSE simulation_events,
                               rms.new_event)
        /\ rms' = [rms EXCEPT !.pc = "ComRes"]
        /\ UNCHANGED <<topoVars, log, err, call, elemVars, Y_bus, reduceVars,
                       PowerFactoryApp_instance, pf_calls, busbars_before>>

\* Lines 84-128: the export, and the end of the iteration.
ExportResults ==
    /\ RmsAt("ComRes")
    /\ simulation_events' = SetOutOfService(simulation_events, rms.new_event)
    /\ rms' = [rms EXCEPT !.pc = RmsNext, !.previous_event = rms.new_event,
                          !.files_names = Append(@, "results_izpad_" \o
                              rms.generators[rms.iteration].loc_name \o ".csv")]
    /\ UNCHANGED <<topoVars, log, err, call, elemVars, Y_bus, reduceVars,
                   PowerFactoryApp_instance, pf_calls, busbars_before>>

NextRms ==
    \/ StartRms
    \/ CreateSwitchEvent
    \/ ExecuteComInc
    \/ ExecuteComSim
    \/ DeletePreviousEvent
    \/ ExportResults

SpecRms == InitBusbars /\ [][NextRms]_vars

(***************************************************************************)
(* Claims about the elements and build_admittance_matrix, under SpecYbus   *)
(***************************************************************************)
\* The bus names an element is connected to.
Terminals(element) ==
    CASE element.cls \in {"Line", "Switch", "TwoWindingTransformer"} ->
             {element.busbar_from, element.busbar_to}
      [] element.cls = "CommonImpedance" -> {element.bus_from, element.bus_to}
      [] element.cls = "ThreeWindingTransformer" ->
             {element.bus_HV, element.bus_MV, element.bus_LV}
      [] element.cls = "ShuntElement" -> {element.bus_to}
      [] OTHER -> {element.busbar_to}

HasAbsentTerminal(net, element) == \E bus \in Terminals(element) : ~HasBus(net, bus)

Present(net, elements) == SelectSeq(elements, LAMBDA e : ~HasAbsentTerminal(net, e))

\* The network without the elements that have a terminal outside the index.
WithoutAbsent(net) ==
    [net EXCEPT !.lines = Present(net, @), !.synchronous_machines = Present(net, @),
                !.switchs = Present(net, @), !.two_winding_transformers = Present(net, @),
                !.three_winding_transformers = Present(net, @), !.loads = Present(net, @),
                !.common_impedances = Present(net, @), !.external_grids = Present(net, @),
                !.voltage_sources = Present(net, @), !.shunts = Present(net, @)]

AssemblyCalled == call.name = "build_admittance_matrix"

\* C6: build_admittance_matrix passes over every element that has a terminal
\* bus absent from busbar_name_to_index, without raising, and returns the
\* matrix assembled from the remaining elements (whenever assembling those
\* remaining elements alone succeeds).
C6_AbsentBusIsSkipped ==
    (AssemblyCalled /\ build_admittance_matrix(WithoutAbsent(Network)).raised = "none")
        => /\ err = "none"
           /\ Y_bus = build_admittance_matrix(WithoutAbsent(Network)).Y

\* The impedance the element's class computes from the constructor arguments
\* p, before any clamping, is exactly zero.
ImpedanceIsZero(cls, p) ==
    CASE cls = "Line" -> Line_calculate_impedance(p, p.base_mva) = CZero
      [] cls = "Switch" -> Switch_calculate_impedance(p) = QZero
      [] cls = "SynchronousGenerator" -> SynchronousGenerator_calculate_impedance(p) = CZero
      [] cls = "TwoWindingTransformer" ->
             TwoWindingTransformer_calculate_impedance(p, p.base_mva) = CZero
      [] cls = "ThreeWindingTransformer" ->
             \/ ThreeWindingTransformer_Z(p.u_k_percent_AB, p.S_nom_AB) = QZero
             \/ ThreeWindingTransformer_Z(p.u_k_percent_BC, p.S_nom_BC) = QZero
             \/ ThreeWindingTransformer_Z(p.u_k_percent_CA, p.S_nom_CA) = QZero
      [] cls = "CommonImpedance" -> p.R = QZero /\ p.X = QZero
      [] cls = "ExternalGrid" -> ExternalGrid_calculate_impedance(p) = CZero
      [] cls = "VoltageSourceAC" -> p.R = QZero /\ p.X = QZero
      [] OTHER -> FALSE

AllFinite(Y) == \A i \in 1..Len(Y) : \A j \in 1..Len(Y[i]) : CIsFinite(Y[i][j])

\* C7: for every element variant, a computed impedance of exactly zero is
\* clamped to the floor: constructing the element does not raise, and no entry
\* of a Y-bus that has been built is inf or NaN.
C7_ZeroImpedanceIsClamped ==
    /\ ImpedanceIsZero(call.name, call.arg) => err = "none"
    /\ Y_bus # NoMatrix => AllFinite(Y_bus)

KnownShuntTypes ==
    {ShuntType_R_L_C, ShuntType_R_L, ShuntType_C, ShuntType_R_L_C_Rp, ShuntType_R_L_C1_C2_Rp}

\* C8: constructing a shunt whose type is R_L_C_Rp, or is none of the five
\* known types, raises a configuration error, and no shunt object without an
\* admittance is in the network.
C8_UnsupportedShuntIsFatal ==
    /\ (/\ call.name = "ShuntElement"
        /\ call.arg.shunt_type \in {ShuntType_R_L_C_Rp} \cup ((0..5) \ KnownShuntTypes))
           => err = "ValueError"
    /\ \A i \in 1..Len(shunts) : shunts[i].Y # PyNone

\* The network holds nothing but lines, switches and common impedances.
OnlyBranches ==
    /\ synchronous_machines = <<>> /\ two_winding_transformers = <<>>
    /\ three_winding_transformers = <<>> /\ loads = <<>> /\ external_grids = <<>>
    /\ voltage_sources = <<>> /\ shunts = <<>>

Branches == lines \o switchs \o common_impedances

\* The two ends of a branch, as bus names.
Ends(e) ==
    IF e.cls = "CommonImpedance" THEN <<e.bus_from, e.bus_to>>
    ELSE <<e.busbar_from, e.busbar_to>>

\* The branch lies between two buses of the index, and these have indices i and j.
Connects(e, i, j) ==
    /\ HasBus(Network, Ends(e)[1]) /\ HasBus(Network, Ends(e)[2])
    /\ {BusIndex(Network, Ends(e)[1]), BusIndex(Network, Ends(e)[2])} = {i, j}

\* The branch lies between two buses of the index, one of which has index i.
IncidentTo(e, i) == \E j \in 0..(Len(busbars) - 1) : Connects(e, i, j)

\* The admittance of the branch; for a line of several parallel systems, that
\* of all of them together.
BranchAdmittance(e) ==
    IF e.cls = "Line" /\ e.parallel > 1 THEN CScale(QInt(e.parallel), e.Y_line)
    ELSE IF e.cls = "Line" THEN e.Y_line
    ELSE e.Y

\* Half the shunt admittance of a line; for a line of several parallel systems,
\* of all of them together.
HalfShunt(e) ==
    IF e.cls = "Line" /\ e.parallel > 1
    THEN CPyDivReal(CScale(QInt(e.parallel), e.Y_shunt), QInt(2))
    ELSE IF e.cls = "Line" THEN CPyDivReal(e.Y_shunt, QInt(2))
    ELSE CZero

RECURSIVE SumConnecting(_, _, _, _)
\* The sum of the admittances of those of the first k branches that connect i and j.
SumConnecting(es, k, i, j) ==
    IF k = 0 THEN CZero
    ELSE IF Connects(es[k], i, j)
    THEN CAdd(SumConnecting(es, k - 1, i, j), BranchAdmittance(es[k]))
    ELSE SumConnecting(es, k - 1, i, j)

RECURSIVE SumIncident(_, _, _)
\* The sum, over those of the first k branches that are incident to i, of the
\* branch admittance plus half the line's shunt admittance.
SumIncident(es, k, i) ==
    IF k = 0 THEN CZero
    ELSE IF IncidentTo(es[k], i)
    THEN CAdd(SumIncident(es, k - 1, i), CAdd(BranchAdmittance(es[k]), HalfShunt(es[k])))
    ELSE SumIncident(es, k - 1, i)

C14_Case ==
    /\ AssemblyCalled /\ err = "none"
    /\ Len(busbars) = 2 /\ TotalElements = 1 /\ Len(lines) = 1
    /\ lines[1] = Line(LineArgs("a", "b", QZero, QInt(10), QZero, QZero, 1, QInt(100)))

\* C14 as stated: the admittance of that line is -10j, both diagonal entries of
\* the 2x2 Y-bus are +10j and both off-diagonal entries are -10j.
C14_DiagonalPlusTenJ ==
    C14_Case
        => /\ lines[1].Y_line = C(QZero, QInt(-10))
           /\ Y_bus = << <<C(QZero, QInt(10)), C(QZero, QInt(-10))>>,
                         <<C(QZero, QInt(-10)), C(QZero, QInt(10))>> >>

\* C14, amended: the admittance of that line is -10j, both diagonal entries of
\* the 2x2 Y-bus are -10j and both off-diagonal entries are +10j.
C14_DiagonalMinusTenJ ==
    C14_Case
        => /\ lines[1].Y_line = C(QZero, QInt(-10))
           /\ Y_bus = << <<C(QZero, QInt(-10)), C(QZero, QInt(10))>>,
                         <<C(QZero, QInt(10)), C(QZero, QInt(-10))>> >>

C14_Witness == C14_Case /\ Y_bus # NoMatrix

\* U_rated_HV / U_rated_LV == U_nominal_HV / U_nominal_LV
UnitRatio(t) ==
    PyDiv(t.U_rated_HV, t.U_rated_LV) = PyDiv(t.U_nominal_HV, t.U_nominal_LV)

\* The only element of the network is a two-winding transformer between two
\* buses of the index, and the matrix has been built.
LoneTransformer ==
    /\ AssemblyCalled /\ err = "none"
    /\ TotalElements = 1 /\ Len(two_winding_transformers) = 1
    /\ ~HasAbsentTerminal(Network, two_winding_transformers[1])

LoneLine ==
    /\ AssemblyCalled /\ err = "none"
    /\ TotalElements = 1 /\ Len(lines) = 1
    /\ ~HasAbsentTerminal(Network, lines[1])

\* What build_admittance_matrix makes of the network with the one element x in
\* the place of its only line, or of its only two-winding transformer.
BuiltWithLine(x) == build_admittance_matrix([Network EXCEPT !.lines = <<x>>]).Y
BuiltWithTransformer(x) ==
    build_admittance_matrix([Network EXCEPT !.two_winding_transformers = <<x>>]).Y

\* n times the matrix Y, entry by entry.
MatScale(n, Y) == [i \in 1..Len(Y) |-> [j \in 1..Len(Y[i]) |-> CScale(QInt(n), Y[i][j])]]

Reordered(f) == [k \in 1..Len(AssemblyOrder(Network)) |-> AssemblyOrder(Network)[f[k]]]

\* What the loops of build_admittance_matrix give when they go through the
\* elements in that order.
BuiltInOrder(f) ==
    StampAll(Network, Built(MatZeros(Len(busbars), Len(busbars))), Reordered(f),
             Len(AssemblyOrder(Network)))

\* C19: for a fixed bus index and fixed elements, build_admittance_matrix
\* yields the same matrix in whatever order the elements are gone through,
\* within a list and across the lists of the variants (and it fails in every
\* order if it fails in one).
C19_AssemblyOrderIsIrrelevant ==
    AssemblyCalled
        => \A f \in Permutations(1..Len(AssemblyOrder(Network))) :
               /\ (err = "none") <=> (BuiltInOrder(f).raised = "none")
               /\ err = "none" => Y_bus = BuiltInOrder(f).Y

\* The matrix has been built from two different elements that are stamped on
\* a common entry.
C19_Witness ==
    /\ AssemblyCalled /\ err = "none" /\ TotalElements >= 2
    /\ AssemblyOrder(Network)[1] # AssemblyOrder(Network)[2]
    /\ Terminals(AssemblyOrder(Network)[1]) \cap Terminals(AssemblyOrder(Network)[2]) # {}
    /\ \A i \in 1..Len(Y_bus) : Y_bus[i][i] # CZero

\* The object the constructor last called has appended to its list.
Constructed ==
    CASE call.name = "Line" -> lines[Len(lines)]
      [] call.name = "SynchronousGenerator" -> synchronous_machines[Len(synchronous_machines)]
      [] call.name = "Switch" -> switchs[Len(switchs)]
      [] call.name = "CommonImpedance" -> common_impedances[Len(common_impedances)]
      [] call.name = "VoltageSourceAC" -> voltage_sources[Len(voltage_sources)]

\* C20: after an element has been constructed, which computes its admittance,
\* its stored nameplate parameters equal the values passed in: R and X of a
\* CommonImpedance or VoltageSourceAC, the resistance and reactance of a line,
\* the on-resistance of a switch, the resistance and reactances of a machine.
C20_ParametersAreKept ==
    err = "none"
        => CASE call.name \in {"CommonImpedance", "VoltageSourceAC"} ->
                    Constructed.R = call.arg.R /\ Constructed.X = call.arg.X
             [] call.name = "Line" ->
                    /\ Constructed.resistance = call.arg.resistance
                    /\ Constructed.reactance = call.arg.reactance
             [] call.name = "Switch" -> Constructed.on_resistance = call.arg.on_resistance
             [] call.name = "SynchronousGenerator" ->
                    /\ Constructed.r_a = call.arg.r_a /\ Constructed.x_as = call.arg.x_as
                    /\ Constructed.x_d1 = call.arg.x_d1
             [] OTHER -> TRUE

\* The network holds only series elements without a path to ground: lines of
\* zero susceptance, switches, common impedances, three-winding transformers.
OnlySeriesElements ==
    /\ synchronous_machines = <<>> /\ two_winding_transformers = <<>>
    /\ loads = <<>> /\ external_grids = <<>> /\ voltage_sources = <<>> /\ shunts = <<>>
    /\ \A k \in 1..Len(lines) :
           lines[k].susceptance_effective = QZero /\ lines[k].susceptance_ground = QZero

RECURSIVE RowSum(_, _, _)
\* The sum of the first k entries of row i (from 1) of the matrix.
RowSum(Y, i, k) == IF k = 0 THEN CZero ELSE CAdd(RowSum(Y, i, k - 1), Y[i][k])

RECURSIVE ColumnSum(_, _, _)
\* The sum of the first k entries of column j (from 1) of the matrix.
ColumnSum(Y, j, k) == IF k = 0 THEN CZero ELSE CAdd(ColumnSum(Y, j, k - 1), Y[k][j])

\* C28: the matrix build_admittance_matrix returns for a network of series
\* elements only has every row and every column summing to zero.
C28_RowsAndColumnsSumToZero ==
    (AssemblyCalled /\ err = "none" /\ OnlySeriesElements)
        => \A i \in 1..Len(Y_bus) :
               /\ RowSum(Y_bus, i, Len(Y_bus)) = CZero
               /\ ColumnSum(Y_bus, i, Len(Y_bus)) = CZero

(***************************************************************************)
(* Claims about the converters, checked under SpecConvert                  *)
(***************************************************************************)
\* The switches of the list whose IsClosed() is not 0.
ClosedOnly(switches) == SelectSeq(switches, LAMBDA sw : sw.IsClosed # 0)

\* The names of the Switch objects in network.switchs.
SwitchNames == {switchs[k].name : k \in 1..Len(switchs)}

\* C16: convert_switches returns no Switch for an input switch whose
\* IsClosed() is 0, and what it returns is what it returns for the closed
\* switches alone; so a Y-bus built afterwards is the Y-bus of the network
\* whose switches are converted from the closed switches alone.
C16_OpenSwitchIsExcluded ==
    /\ (call.name = "convert_switches" /\ err = "none")
           => /\ \A k \in 1..Len(call.arg) :
                      call.arg[k].IsClosed = 0
                          => generate_unique_name(call.arg[k].loc_name, "None")
                                 \notin SwitchNames
              /\ switchs = convert_switches(ClosedOnly(call.arg)).appended
    /\ (Y_bus # NoMatrix /\ classified_elements["ElmCoup"] # <<>>)
           => Y_bus = build_admittance_matrix(
                          [Network EXCEPT !.switchs =
                               convert_switches(
                                   ClosedOnly(classified_elements["ElmCoup"])).appended]).Y

\* An open and a closed switch were converted, a Switch came out, and the
\* matrix has been built.
C16_Witness ==
    /\ Y_bus # NoMatrix /\ switchs # <<>>
    /\ \E k \in 1..Len(classified_elements["ElmCoup"]) :
           /\ classified_elements["ElmCoup"][k].IsClosed = 0
           /\ classified_elements["ElmCoup"][k].bus1 # PyNone

\* The number of terminals a variant's elements have, and the test for an
\* element that has another number of them or no type object.
Malformed(converter, object) ==
    CASE converter = "convert_lines" ->
             object.typ_id = PyNone \/ Len(object.GetConnectedElements) # 2
      [] converter = "convert_synchronous_machines" ->
             object.typ_id = PyNone \/ Len(object.GetConnectedElements) # 1
      [] converter = "convert_shunt_elements" -> object.bus1 = PyNone
      [] OTHER -> FALSE

WellFormed(converter, objects) == SelectSeq(objects, LAMBDA o : ~Malformed(converter, o))

\* What the converter makes of a list of objects.
Conversion(converter, objects) ==
    CASE converter = "convert_lines" -> convert_lines(objects, busbar_name_to_index)
      [] converter = "convert_synchronous_machines" -> convert_synchronous_machines(objects)
      [] converter = "convert_shunt_elements" -> convert_shunt_elements(objects)

\* What the converter last called has stored in the network.
Converted(converter) ==
    CASE converter = "convert_lines" -> lines
      [] converter = "convert_synchronous_machines" -> synchronous_machines
      [] converter = "convert_shunt_elements" -> shunts

\* C17: a converter that meets a malformed element (a number of terminals
\* other than the variant's, or no type object) does not raise, prints a
\* warning for it, and returns the elements it returns for the remaining
\* objects of its input, in input order.
C17_MalformedIsSkipped ==
    call.name \in {"convert_lines", "convert_synchronous_machines", "convert_shunt_elements"}
        => /\ err = "none"
           /\ Converted(call.name)
                  = Conversion(call.name, WellFormed(call.name, call.arg)).appended
           /\ \A k \in 1..Len(call.arg) :
                  Malformed(call.name, call.arg[k])
                      => \E w \in 1..Len(log) : log[w].name = call.arg[k].loc_name

(***************************************************************************)
(* Claims about reduce_matrix and the ratios, checked under SpecReduce     *)
(***************************************************************************)
RatiosCalled == call.name = "calculate_power_distribution_ratios"
ReduceCalled == call.name = "reduce_matrix"

GeneratorNames == {synchronous_machines[g].name : g \in 1..Len(synchronous_machines)}

\* The position (from 1) of the outaged generator's bus in the returned vector.
OutagePosition ==
    IndexOf(generator_bus_names_order, dist_bus_name(synchronous_machines, call.arg)) + 1

\* The returned vector with the entry of the outaged generator left out.
Remaining == [i \in 1..(Len(ratios) - 1) |-> ratios[IF i < OutagePosition THEN i ELSE i + 1]]

\* C1: with at least two generators and the name of one of them as the outage,
\* the returned vector has exactly 0 at the outaged generator's position and
\* its remaining entries sum to 1 (100%).
C1_OutageZeroOthersSumToOne ==
    (RatiosCalled /\ err = "none" /\ Len(synchronous_machines) >= 2
     /\ call.arg \in GeneratorNames)
        => /\ ratios[OutagePosition] = QZero
           /\ SumTo(Remaining, Len(Remaining)) = QOne

\* C2: with exactly two generators, on two distinct buses, and one of them
\* outaged, the ratio returned for the surviving generator is exactly 1 (100%)
\* and the ratio of the outaged generator is 0.
C2_SoleSurvivorTakesAll ==
    (RatiosCalled /\ err = "none" /\ Len(synchronous_machines) = 2
     /\ synchronous_machines[1].busbar_to # synchronous_machines[2].busbar_to
     /\ call.arg \in GeneratorNames)
        => /\ Len(ratios) = 2
           /\ ratios[OutagePosition] = QZero
           /\ ratios[3 - OutagePosition] = QOne

\* C3: when the outage name is the name of no generator, the call ends with the
\* 'not found' ValueError and none of the helpers (voltage and impedance, power,
\* internal voltage, coefficient matrix) has been gone through.
C3_NotFoundBeforeAnyWork ==
    (RatiosCalled /\ call.arg \notin GeneratorNames)
        => /\ err = "ValueError"
           /\ steps = <<>>

\* The number of generator buses: the number of synthetic nodes.
NumGeneratorBuses == Len(Where(is_gen_bus(Network), 1, Len(is_gen_bus(Network))))

\* The eliminated block of the extended matrix of the network is singular.
Y_LL_IsSingular ==
    Determinant(Y_LL_of(ExtendedMatrix(Y_bus, Network), NumGeneratorBuses)) = CZero

SingleBusSingleGenerator ==
    Len(busbars) = 1 /\ Len(synchronous_machines) = 1 /\ Len(lines) = 0

\* C10 as stated: for one bus carrying one generator, reduce_matrix returns the
\* 1x1 matrix holding the generator's own admittance.
C10_SingleBusKeepsGeneratorAdmittance ==
    (ReduceCalled /\ SingleBusSingleGenerator)
        => err = "none" /\ Y_reduced = << << synchronous_machines[1].Y >> >>

\* C10, amended: for one bus carrying one generator, reduce_matrix returns the
\* 1x1 zero matrix (Y - Y * (1 / Y) * Y for the generator's admittance Y) and
\* the name of the bus.
C10_SingleBusReducesToZero ==
    (ReduceCalled /\ SingleBusSingleGenerator)
        => /\ err = "none"
           /\ Y_reduced = << << CZero >> >>
           /\ generator_bus_names_order = << busbars[1].name >>

\* reduce_matrix has returned for one bus carrying one generator.
C10_Witness == ReduceCalled /\ SingleBusSingleGenerator /\ err = "none"

RECURSIVE TraversalOrder(_, _)
\* The buses of the first k generators of the list, in the order in which the
\* traversal of the list meets them, each bus once.
TraversalOrder(machines, k) ==
    IF k = 0 THEN <<>>
    ELSE IF machines[k].busbar_to \in Range(TraversalOrder(machines, k - 1))
    THEN TraversalOrder(machines, k - 1)
    ELSE Append(TraversalOrder(machines, k - 1), machines[k].busbar_to)

ReduceReturned == ReduceCalled /\ err = "none"

\* C11: the name list returned by reduce_matrix holds the generator buses in
\* the order in which network.synchronous_machines meets them, not in the
\* order of the buses' indices.
C11_NamesInGeneratorOrder ==
    ReduceReturned
        => generator_bus_names_order
               = TraversalOrder(synchronous_machines, Len(synchronous_machines))

\* C12: the matrix returned by reduce_matrix is p x p and the name list has p
\* entries, p being the number of generators of network.synchronous_machines,
\* also when several generators are connected to one bus.
C12_OneRowPerGenerator ==
    ReduceReturned
        => /\ Len(Y_reduced) = Len(synchronous_machines)
           /\ \A i \in 1..Len(Y_reduced) : Len(Y_reduced[i]) = Len(synchronous_machines)
           /\ Len(generator_bus_names_order) = Len(synchronous_machines)

\* The bus names in the order of busbar_name_to_index, and those of them that
\* carry a generator.
AllBusNames == [k \in 1..Len(busbar_name_to_index) |-> busbar_name_to_index[k][1]]

GeneratorBuses ==
    {b \in Range(AllBusNames) :
        \E g \in 1..Len(synchronous_machines) : synchronous_machines[g].busbar_to = b}

\* Row and column i of the matrix E hold y at (i, i), -y at the node `at`, and
\* zero elsewhere.
SyntheticNode(E, i, at, y) ==
    \A c \in 1..Len(E) :
        /\ E[i][c] = (IF c = i THEN y ELSE IF c = at THEN CNeg(y) ELSE CZero)
        /\ E[c][i] = (IF c = i THEN y ELSE IF c = at THEN CNeg(y) ELSE CZero)

\* The matrix E is p synthetic nodes followed by the buses in the order perm
\* with the entries of Y_bus; synthetic node i belongs to the bus order[i].
ExtendedAs(E, perm, order, p, n) ==
    /\ \A r, c \in 1..n :
           r < c => ~(AllBusNames[perm[r]] \in GeneratorBuses
                      /\ AllBusNames[perm[c]] \notin GeneratorBuses)
    /\ \A r, c \in 1..n : E[p + r][p + c] = Y_bus[perm[r]][perm[c]]
    /\ \A i \in 1..p :
           \E g \in 1..Len(synchronous_machines) : \E r \in 1..n :
               /\ synchronous_machines[g].busbar_to = order[i]
               /\ AllBusNames[perm[r]] = order[i]
               /\ SyntheticNode(E, i, p + r, synchronous_machines[g].Y)

\* C22: the extended matrix reduce_matrix builds has one synthetic node per
\* generator bus, then the buses of Y_bus under one permutation of rows and
\* columns that puts the buses without a generator first; synthetic node i
\* has the admittance Y of a generator on the bus named
\* generator_bus_names_order[i] on its diagonal, -Y at the row and the column
\* of that bus, and zero elsewhere outside the Y_bus block.
C22_ExtendedMatrixStructure ==
    ReduceCalled =>
        /\ Len(ExtendedMatrix(Y_bus, Network))
               = Cardinality(GeneratorBuses) + Len(AllBusNames)
        /\ \E perm \in Permutations(1..Len(AllBusNames)) :
           \E order \in [1..Cardinality(GeneratorBuses) -> GeneratorBuses] :
               /\ \A i, j \in DOMAIN order : order[i] = order[j] => i = j
               /\ err = "none" => order = generator_bus_names_order
               /\ ExtendedAs(ExtendedMatrix(Y_bus, Network), perm, order,
                             Cardinality(GeneratorBuses), Len(AllBusNames))

\* reduce_matrix has returned for a network in which a bus with a generator
\* comes before a bus without one, and a bus carries two generators.
C22_Witness ==
    /\ ReduceReturned
    /\ \E r, c \in 1..Len(AllBusNames) :
           r < c /\ AllBusNames[r] \in GeneratorBuses /\ AllBusNames[c] \notin GeneratorBuses
    /\ Cardinality(GeneratorBuses) < Len(synchronous_machines)

\* C26: every ratio calculate_power_distribution_ratios returns is a finite
\* number: the normalisation does not divide by a zero sum of coefficients,
\* also with a single generator or with generators that are not coupled.
C26_RatiosAreFinite ==
    (RatiosCalled /\ err = "none") => \A i \in 1..Len(ratios) : QIsFinite(ratios[i])

\* C27: at every position i of generator_bus_names_order, the generator whose
\* admittance reduce_matrix has put on the diagonal of synthetic node i is the
\* generator whose impedance obtain_generator_voltage_and_impedance takes at
\* position i (the first one on the bus), also when several generators are on
\* one bus: the diagonal entry is the admittance of that generator.
C27_SameGeneratorAtEachPosition ==
    ReduceReturned =>
        \A i \in 1..Len(generator_bus_names_order) :
            ExtendedMatrix(Y_bus, Network)[i][i]
                = synchronous_machines[
                      FirstOn(synchronous_machines, generator_bus_names_order[i])].Y

(***************************************************************************)
(* Claims about read_busbars, checked under SpecBusbars                    *)
(***************************************************************************)
\* The 0-based position of the first bus of PF_busbars that carries `name`.
FirstOccurrence(name) ==
    (CHOOSE i \in 1..Len(PF_busbars) :
        /\ PF_busbars[i].loc_name = name
        /\ \A j \in 1..(i - 1) : PF_busbars[j].loc_name # name) - 1

HasDuplicateName ==
    \E i, j \in 1..Len(PF_busbars) : i < j /\ PF_busbars[i].loc_name = PF_busbars[j].loc_name

ReadBusbarsSucceeded == call.name = "read_busbars" /\ err = "none"

\* C4: after read_busbars (pfapi) has processed buses of which two passed the
\* filter under one name, the name is mapped to the index of its first
\* occurrence, a warning names it, and the call ended without an error.
C4_FirstOccurrenceWins ==
    (call.name = "read_busbars" /\ HasDuplicateName) =>
        /\ err = "none"
        /\ \E w \in Range(log) : w.level = "warning"
        /\ \A i \in 1..Len(PF_busbars) :
              DictGet(busbar_name_to_index, PF_busbars[i].loc_name)
                  = FirstOccurrence(PF_busbars[i].loc_name)

\* The number of buses of the last call's argument that pass the three tests of
\* the claim (outserv # 1, iUsage in {0, 1}, IsEnergized() = 1).
NumPassing ==
    Cardinality({i \in 1..Len(call.arg) :
                    /\ call.arg[i].outserv # 1
                    /\ call.arg[i].iUsage \in {0, 1}
                    /\ call.arg[i].IsEnergized = 1})

IndexSet == {busbar_name_to_index[i][2] : i \in 1..Len(busbar_name_to_index)}

\* C5 as stated: after a successful read_busbars the indices held are exactly
\* 0..N-1, N the number of buses that passed, and busbars[index(name)].name = name.
C5_IndicesAreExactlyTheRange ==
    ReadBusbarsSucceeded =>
        /\ IndexSet = 0..(NumPassing - 1)
        /\ \A i \in 1..Len(busbar_name_to_index) :
              busbars[busbar_name_to_index[i][2] + 1].name = busbar_name_to_index[i][1]

\* C5 (amended): after a successful read_busbars, busbars holds the N >= 1 buses
\* that passed, with ids 0..N-1; every index held lies in 0..N-1 and
\* busbars[index(name)].name = name; every name of a bus that passed is mapped;
\* the indices are exactly 0..N-1 when those names are pairwise distinct.
C5_IndicesWithinTheRange ==
    ReadBusbarsSucceeded =>
        /\ NumPassing >= 1
        /\ Len(busbars) = NumPassing
        /\ Len(PF_busbars) = NumPassing
        /\ \A i \in 1..Len(busbars) : busbars[i].id = i - 1
        /\ IndexSet \subseteq 0..(NumPassing - 1)
        /\ \A i \in 1..Len(busbar_name_to_index) :
              busbars[busbar_name_to_index[i][2] + 1].name = busbar_name_to_index[i][1]
        /\ \A i \in 1..Len(busbars) : DictHas(busbar_name_to_index, busbars[i].name)
        /\ (~HasDuplicateName => IndexSet = 0..(NumPassing - 1))

\* C5 witness: a successful call in which some buses were filtered out and at
\* least two buses with different names passed.
C5_Witness ==
    /\ ReadBusbarsSucceeded
    /\ ~HasDuplicateName
    /\ NumPassing >= 2
    /\ Len(call.arg) > NumPassing

\* The bases of the converted elements of the classes convertible here.
ConvertedBases ==
    {lines[i].base_mva : i \in 1..Len(lines)}
    \cup {synchronous_machines[i].base_mva : i \in 1..Len(synchronous_machines)}
    \cup {switchs[i].S_base : i \in 1..Len(switchs)}
    \cup {shunts[i].base_mva : i \in 1..Len(shunts)}

\* C23: obtain_elements_data, with which the construction of a Network ends,
\* completes, and every converted element carries the base the Network was
\* constructed with.
C23_ElementsCarrySystemBase ==
    /\ call.name = "obtain_elements_data" => err = "none"
    /\ \A base \in ConvertedBases : base = network_base_mva

(***************************************************************************)
(* Claims about PowerFactoryApp, checked under SpecApp                     *)
(***************************************************************************)
\* The positions of pf_calls that are constructions.
Constructions == {k \in 1..Len(pf_calls) : pf_calls[k].name = "PowerFactoryApp"}

\* C21: PowerFactoryApp is a singleton: all the constructions made so far
\* have given the same instance, and GetApplicationExt has been called at
\* most once, never while the instance holds a handle.
C21_Singleton ==
    /\ \A j, k \in Constructions : pf_calls[j].self.id = pf_calls[k].self.id
    /\ Cardinality({k \in Constructions : pf_calls[k].GetApplicationExt}) <= 1
    /\ \A j, k \in Constructions :
           (j < k /\ AppOf(pf_calls[j].self) # PyNone) => ~pf_calls[k].GetApplicationExt

\* Three constructions have been made, the first of which started the
\* application.
C21_Witness ==
    /\ Cardinality(Constructions) >= 3
    /\ \E k \in Constructions : pf_calls[k].GetApplicationExt /\ pf_calls[k].raised = "none"

\* C30: every construction raises RuntimeError or gives an instance whose app
\* is a started application, also a construction that follows a failed one.
C30_HandleOrRuntimeError ==
    \A k \in Constructions :
        pf_calls[k].raised = "RuntimeError" \/ AppOf(pf_calls[k].self) # PyNone

(***************************************************************************)
(* Claims about read_connected_elements and repeated read_busbars, checked *)
(* under SpecRead                                                          *)
(***************************************************************************)
\* The list stored for a class, empty when the class is not a key.
StoredFor(c) == IF c \in DOMAIN classified_elements THEN classified_elements[c] ELSE <<>>

\* The objects of an answer that are in service and energized.
InServiceEnergized(objects) ==
    SelectSeq(objects, LAMBDA e : e.outserv # 1 /\ e.IsEnergized = 1)

\* C24: after read_connected_elements the call has returned normally; a class
\* whose reading failed has the empty list, every other class has been read
\* (it holds the in-service, energized objects PowerFactory answered for it),
\* and every element stored is in service and energized.
C24_ClassFailureIsNotFatal ==
    call.name = "read_connected_elements" =>
        /\ err = "none"
        /\ \A c \in Range(elements_to_read) :
               IF ReadFails(call.arg[c])
               THEN c \in DOMAIN classified_elements /\ classified_elements[c] = <<>>
               ELSE StoredFor(c) = InServiceEnergized(call.arg[c].objects)
        /\ \A c \in DOMAIN classified_elements :
               \A i \in 1..Len(classified_elements[c]) :
                   /\ classified_elements[c][i].outserv # 1
                   /\ classified_elements[c][i].IsEnergized = 1

\* One class failed on an object inside its loop, another was read and holds
\* fewer elements than PowerFactory answered.
C24_Witness ==
    /\ call.name = "read_connected_elements"
    /\ \E c \in Range(elements_to_read) :
           ~call.arg[c].raised /\ ReadFails(call.arg[c]) /\ classified_elements[c] = <<>>
    /\ \E c \in Range(elements_to_read) :
           /\ ~ReadFails(call.arg[c])
           /\ StoredFor(c) # <<>>
           /\ Len(StoredFor(c)) < Len(call.arg[c].objects)

\* The buses of the last call's argument that pass the filter.
PassingOf(busbarsPF) ==
    SelectSeq(busbarsPF, LAMBDA b : b.outserv # 1 /\ b.iUsage \in {0, 1} /\ b.IsEnergized = 1)

IndexedNames == {busbar_name_to_index[i][1] : i \in 1..Len(busbar_name_to_index)}

\* C29: after a successful read_busbars the three structures describe the
\* buses of that call only (the buses that passed, in order, and their names);
\* after a read_busbars that raised because no bus passed, all three are
\* empty, whatever an earlier call had left.
C29_EachReadReplaces ==
    call.name = "read_busbars" =>
        IF err = "none"
        THEN /\ PF_busbars = PassingOf(call.arg)
             /\ IndexedNames = {PF_busbars[i].loc_name : i \in 1..Len(PF_busbars)}
             /\ Len(busbars) = Len(PF_busbars)
             /\ \A i \in 1..Len(busbars) : busbars[i].name = PF_busbars[i].loc_name
        ELSE /\ PassingOf(call.arg) = <<>>
             /\ busbar_name_to_index = <<>> /\ PF_busbars = <<>> /\ busbars = <<>>

\* A call on a Network that held buses has raised and left it empty.
C29_Witness ==
    /\ call.name = "read_busbars" /\ err = "ValueError"
    /\ busbars_before # {} /\ PF_busbars = <<>>

(***************************************************************************)
(* Claims about obtain_rms_results, checked under SpecRms                  *)
(***************************************************************************)
\* A simulation is about to execute: the initial conditions or the RMS run.
Simulating == RmsAt("ComInc") \/ RmsAt("ComSim")

\* The switch events created by the run that are in service.
CreatedInService ==
    {i \in 1..Len(simulation_events) :
        simulation_events[i].created /\ simulation_events[i].outserv # 1}

\* C25: whenever a simulation of obtain_rms_results executes, every event
\* found in the folder is out of service, and exactly one event created by
\* the procedure is in service: the one that targets the generator of the
\* current iteration.
C25_OneSwitchEventInService ==
    Simulating =>
        /\ \A i \in 1..Len(simulation_events) :
               ~simulation_events[i].created => simulation_events[i].outserv = 1
        /\ Cardinality(CreatedInService) = 1
        /\ \A i \in CreatedInService :
               simulation_events[i].p_target = rms.generators[rms.iteration].loc_name

\* The RMS run of the second generator is about to execute; the folder holds
\* an event that was found and the event of the first generator, not deleted.
C25_Witness ==
    /\ RmsAt("ComSim") /\ rms.iteration = 2
    /\ \E i \in 1..Len(simulation_events) : ~simulation_events[i].created
    /\ Cardinality({i \in 1..Len(simulation_events) : simulation_events[i].created}) = 2

====
